---- MODULE Spec2Model ----
(***************************************************************************)
(* The reactive derivation graph of s2k (src/src/lib.rs): latest-value     *)
(* channels (tokio::sync::watch), the watch1/watch2/watch3 combinators,    *)
(* the wiring made by start(), the UI event handlers that write the input  *)
(* channels, and the clipboard-copy task.                                  *)
(*                                                                         *)
(* All watchers are children of one try_join tree polled by one task on a  *)
(* single thread.  The code of a watcher between two suspension points     *)
(* (one changed().await resolving, the loop turning round, the callback    *)
(* running with its borrow_and_update arguments, up to the next            *)
(* changed().await) is one atomic step, and one poll of the task polls the *)
(* children in the order of the try_join tree; event handlers and other    *)
(* tasks run between two polls, never inside one.                          *)
(***************************************************************************)
EXTENDS Naturals, Integers, Sequences, FiniteSets, TLC

VARIABLES
    val,        \* val[c]: the value a channel currently holds
    open,       \* open[c]: at least one Sender of the channel is alive
    chg,        \* chg[<<w, c>>]: how many versions of c the receiver of watcher w
                \*        has not seen (its version differs from the channel's iff > 0)
    pc,         \* pc[w]: "start" (never polled), "waiting" (in changed().await),
                \*        "done" (returned Ok), "failed" (returned Err), "stuck"
    ret,        \* ret[w]: what the callback of w returned last: "none", "Ok", "Err"
    result,     \* outcome of the joined future awaited by start()
    dom,        \* dom[w]: what the callback of watcher w last rendered into the page
    cursor,     \* index in WatcherOrder of the next child the running poll visits;
                \*        1 between two polls
    burst,      \* event handlers and task steps run since the graph was last polled
    tasks,      \* clipboard-copy tasks spawned by the copy button, counted by phase
    enc,        \* the call of encode / of the 6-digit formatting being evaluated:
                \*        its arguments, its loop position and locals, its result
    storage,    \* the item kept under STORAGE_KEY in the origin's local storage
    thrown,     \* an event handler has returned Err, which the page sees as an
                \*        exception thrown out of the event dispatch
    hasher,     \* the call of s2k being evaluated: its arguments, the position of
                \*        its byte iterator, the bytes fed to the hasher, its digest
    drv,        \* the call of Algorithm::key being evaluated: its arguments, its
                \*        `key` buffer, its result, the key the channel holds, and
                \*        the memory given back so far
    classes,    \* classes[g]: the class lists of input group g and of its input,
                \*        the text of its validation element, and the last
                \*        set_validation call made on it
    input,      \* an InputState of the terminal widgets: value, index, cursor,
                \*        masked, and what handle returned last
    select      \* a SelectState of the terminal widgets: the selected index of
                \*        its list, and what handle returned last

vars == <<val, open, chg, pc, ret, result, dom, cursor, burst, tasks, enc,
          storage, thrown, hasher, drv, classes, input, select>>

----------------------------------------------------------------------------
(* Bounds of the model *)

\* how many distinct random salts SaltString::generate can draw
NumNonces == 2

\* how many clipboard-copy tasks may be in flight at once
MaxCopyTasks == 2

\* how many event handlers and task steps may run back to back before the
\* woken graph is polled
MaxBurst == 2

\* the longest byte string handed to encode
MaxKeyLen == 3

\* the largest digit count handed to encode
MaxCount == 6

\* the longest salt and the longest passphrase handed to s2k
MaxS2kLen == 2

\* the largest byte count handed to s2k
MaxS2kCount == 5

\* the longest value, in bytes, an InputState is followed to
MaxInputBytes == 4

\* the largest cursor column an InputState is followed to
MaxCursor == 5

\* the largest selected index a SelectState is followed to
MaxSelected == 5

----------------------------------------------------------------------------
(* Value domains *)

None == <<>>
Some(x) == <<x>>
IsSome(o) == Len(o) = 1
Unwrap(o) == o[1]

Passwords == {"", "a", "b"}
Salts == {"", "salt2025"}
Algorithms == {"Argon2id256", "Argon2id512", "Argon2id6", "S2kSha256"}
DefaultAlgorithm == "Argon2id256"
Nonces == 1..NumNonces

\* A serialized PHC hash string: algorithm id, salt, digest.  The digest of
\* (password, salt) is kept symbolically as the password it was made from.
PasswordHashString(p, n) == <<"$argon2id", n, p>>
Hashes == {PasswordHashString(p, n) : p \in Passwords, n \in Nonces}

\* texts a user can put into the expected-hash input
HashTexts == {<<>>, <<"junk">>} \cup {PasswordHashString("a", 1)}

\* argon2: salts shorter than this are rejected with Error::SaltTooShort
MIN_SALT_LEN == 8

----------------------------------------------------------------------------
(* The wiring made by start(): channels, watchers, who reads and writes what *)

InputChannels ==
    {"password", "hash_expected_input", "algorithm", "salt", "visible", "copy_icon"}
DerivedChannels ==
    {"password_validation", "hash_actual", "hash_expected", "salt_validation", "key"}
Channels == InputChannels \cup DerivedChannels

\* the children of try_join(f0, f1), in the order they are polled
WatcherOrder ==
    << "password_display", "password_validation_display", "hash_actual_display",
       "hash_expected_parse", "hash", "validation",
       "salt_display", "salt_validation_display",
       "key_display", "visible_display", "copy_icon_display", "key" >>
Watchers == {WatcherOrder[i] : i \in 1..Len(WatcherOrder)}

\* rx0, rx1, rx2 of each watcher
Rx(w) ==
    CASE w = "password_display"            -> <<"password">>
      [] w = "password_validation_display" -> <<"password_validation">>
      [] w = "hash_actual_display"         -> <<"hash_actual">>
      [] w = "hash_expected_parse"         -> <<"hash_expected_input">>
      [] w = "hash"                        -> <<"password">>
      [] w = "validation"                  -> <<"password", "hash_expected">>
      [] w = "salt_display"                -> <<"salt">>
      [] w = "salt_validation_display"     -> <<"salt_validation">>
      [] w = "key_display"                 -> <<"key">>
      [] w = "visible_display"             -> <<"visible">>
      [] w = "copy_icon_display"           -> <<"copy_icon">>
      [] w = "key"                         -> <<"password", "algorithm", "salt">>

RxSet(w) == {Rx(w)[i] : i \in 1..Len(Rx(w))}
Receivers == {r \in Watchers \X Channels : r[2] \in RxSet(r[1])}

\* Tx, were the Senders kept alive by start() instead of moved into the
\* callbacks
TxKept(w) == {}

\* the Senders moved into each watcher's callback
Tx(w) ==
    CASE w = "hash_expected_parse" -> {"hash_expected"}
      [] w = "hash"                -> {"hash_actual"}
      [] w = "validation"          -> {"password_validation"}
      [] w = "key"                 -> {"salt_validation", "key"}
      [] OTHER                     -> {}

----------------------------------------------------------------------------
(* Latest-value channel (tokio::sync::watch) *)

\* copy tasks that have been spawned and have not finished; each owns a clone
\* of copy_icon_tx and of the key receiver
TasksAlive == tasks.spawned + tasks.writing + tasks.sleeping

\* copy tasks inside `if let Some(value) = &*rx.borrow() { .. }`: the Ref (a
\* read lock on the key channel's value) lives until the end of that block
KeyBorrows == tasks.writing + tasks.sleeping

\* every Sender of c has been dropped
Closed(c) == ~open[c] /\ (c = "copy_icon" => TasksAlive = 0)

\* the receiver of watcher w exists: the watcher's future has not completed
\* and has not been dropped with the joined future
Listening(w) == result = "running" /\ pc[w] \in {"start", "waiting"}

\* a Receiver of c exists: one held by a live watcher, the `password` receiver
\* kept by start(), or a clone kept by a button's closure
HasReceiver(c) ==
    \/ c \in {"hash_actual", "key"}
    \/ c = "password" /\ result = "running"
    \/ \E w \in Watchers : c \in RxSet(w) /\ Listening(w)

\* the version of c is bumped: every live receiver is one more version behind
Notify(f, c) ==
    [r \in Receivers |-> IF r[2] = c /\ Listening(r[1]) THEN f[r] + 1 ELSE f[r]]

\* Sender::send: refused when no receiver is left; otherwise the value is
\* replaced and the version is bumped
Send(st, c, v) ==
    IF HasReceiver(c)
    THEN [val |-> [st.val EXCEPT ![c] = v], chg |-> Notify(st.chg, c)]
    ELSE st

\* BorrowAndUpdate, were a read to consume one version instead of all
BorrowAndUpdateOne(st, w) ==
    [val |-> st.val,
     chg |-> [r \in Receivers |->
                IF r[1] = w /\ st.chg[r] > 0 THEN st.chg[r] - 1 ELSE st.chg[r]]]

\* BorrowAndUpdate, were the seen mark kept per channel instead of per receiver
BorrowAndUpdateShared(st, w) ==
    [val |-> st.val,
     chg |-> [r \in Receivers |-> IF r[2] \in RxSet(w) THEN 0 ELSE st.chg[r]]]

\* BorrowAndUpdate, were only the receiver whose changed() resolved marked as
\* having seen its channel
BorrowAndUpdateChanged(st, w) ==
    LET unseen == {i \in 1..Len(Rx(w)) : st.chg[<<w, Rx(w)[i]>>] > 0}
        first == IF unseen = {} THEN 0
                 ELSE CHOOSE i \in unseen : \A j \in unseen : i <= j
    IN  [val |-> st.val,
         chg |-> [r \in Receivers |->
                    IF r[1] = w /\ first > 0 /\ r[2] = Rx(w)[first] THEN 0 ELSE st.chg[r]]]

\* Receiver::borrow_and_update on every receiver of w: the receiver's version
\* becomes the channel's
BorrowAndUpdate(st, w) ==
    [val |-> st.val,
     chg |-> [r \in Receivers |-> IF r[1] = w THEN 0 ELSE st.chg[r]]]

\* Changed, were a receiver with nothing unseen to report closure
ChangedOrClosed(f, w, i) ==
    IF f[<<w, Rx(w)[i]>>] > 0 THEN "Ok" ELSE "Err"

\* Changed, were closure to win over a version the receiver has not seen
ChangedClosedFirst(f, w, i) ==
    IF Closed(Rx(w)[i]) THEN "Err"
    ELSE IF f[<<w, Rx(w)[i]>>] > 0 THEN "Ok"
    ELSE "Pending"

\* Receiver::changed polled once on receiver i of w, the receivers' versions
\* being as in f: an unseen version wins over closure
Changed(f, w, i) ==
    IF f[<<w, Rx(w)[i]>>] > 0 THEN "Ok"
    ELSE IF Closed(Rx(w)[i]) THEN "Err"
    ELSE "Pending"

\* TrySelect, were only rx0 awaited
TrySelectFirst(f, w, i) ==
    IF f[<<w, Rx(w)[1]>>] > 0 THEN "Ok"
    ELSE IF Closed(Rx(w)[1]) THEN "Err"
    ELSE "Pending"

\* TrySelect, were the watcher to stop only once every channel is closed
TrySelectAll(f, w, i) ==
    IF \E c \in RxSet(w) : f[<<w, c>>] > 0 THEN "Ok"
    ELSE IF \A c \in RxSet(w) : Closed(c) THEN "Err"
    ELSE "Pending"

\* changed() of watch1, try_select of watch2 and the nested try_select of
\* watch3: the futures are polled in order rx0, rx1, rx2 and the first one
\* that is ready decides
RECURSIVE TrySelect(_, _, _)
TrySelect(f, w, i) ==
    IF i > Len(Rx(w)) THEN "Pending"
    ELSE IF Changed(f, w, i) # "Pending" THEN Changed(f, w, i)
    ELSE TrySelect(f, w, i + 1)

----------------------------------------------------------------------------
(* The library calls made by the callbacks *)

\* PasswordHashString::new: a PHC string parses, anything else does not
PasswordHashStringNew(text) ==
    IF Len(text) = 3 /\ text[1] = "$argon2id"
    THEN [ok |-> TRUE, v |-> text]
    ELSE [ok |-> FALSE, err |-> "PhcStringField"]

\* VerifyPassword, were every password accepted
VerifyPasswordAny(password, hash) == "Ok"

\* Argon2::verify_password: the digest recomputed from the password and the
\* hash's own salt must equal the digest in the hash
VerifyPassword(password, hash) ==
    IF hash[3] = password THEN "Ok" ELSE "Password"

\* AlgorithmKey, were no minimum salt length enforced
AlgorithmKeyNoMin(algorithm, password, salt) ==
    [ok |-> TRUE, v |-> <<algorithm, password, salt>>]

\* AlgorithmKey, were s2k to ask for a salt of the minimum length as well
AlgorithmKeyMinAll(algorithm, password, salt) ==
    IF Len(salt) < MIN_SALT_LEN
    THEN [ok |-> FALSE, err |-> "SaltTooShort"]
    ELSE [ok |-> TRUE, v |-> <<algorithm, password, salt>>]

\* Algorithm::key: the argon2 variants reject a short salt, s2k takes any
AlgorithmKey(algorithm, password, salt) ==
    IF algorithm # "S2kSha256" /\ Len(salt) < MIN_SALT_LEN
    THEN [ok |-> FALSE, err |-> "SaltTooShort"]
    ELSE [ok |-> TRUE, v |-> <<algorithm, password, salt>>]

\* an argon2::Error of hash_password_into that is neither SaltTooShort nor
\* SaltTooLong
OtherError == "PwdTooLong"

\* algorithm.key(argon2, password, salt) in an environment that answers e:
\* with e.fails the argon2 call returns OtherError (s2k makes no such call)
AlgorithmKeyIn(e, algorithm, password, salt) ==
    IF e.fails /\ algorithm # "S2kSha256"
    THEN [ok |-> FALSE, err |-> OtherError]
    ELSE AlgorithmKey(algorithm, password, salt)

----------------------------------------------------------------------------
(* The callbacks handed to watch1/watch2/watch3.  Each takes the channel    *)
(* state st after borrow_and_update, the page d and the outcome e of what   *)
(* the callback asks of its environment, and returns the new channel state, *)
(* the new page and how the callback ended: "ok", "err" (it returned Err)   *)
(* or "stuck" (a send found the value of its channel borrowed).             *)

Ret(st, d, status) == [st |-> st, dom |-> d, status |-> status]

\* `let _ = tx.send(v)` as the next statement of a callback: the write lock
\* of the value cannot be taken while a Ref of it is alive
ThenSend(r, c, v) ==
    IF r.status # "ok" THEN r
    ELSE IF c = "key" /\ KeyBorrows > 0 THEN Ret(r.st, r.dom, "stuck")
    ELSE Ret(Send(r.st, c, v), r.dom, "ok")

\* input.set_value(value) / output.set_value(..) / set_icon(..) / set_validation(..)
Render(d, w, v) == [d EXCEPT ![w] = v]

PasswordDisplay(st, d, e) ==
    Ret(st, Render(d, "password_display", st.val["password"]), "ok")

PasswordValidationDisplay(st, d, e) ==
    IF e.fails THEN Ret(st, d, "err")
    ELSE Ret(st, Render(d, "password_validation_display", st.val["password_validation"]), "ok")

HashActualDisplay(st, d, e) ==
    IF IsSome(st.val["hash_actual"])
    THEN Ret(st, Render(d, "hash_actual_display", st.val["hash_actual"]), "ok")
    ELSE Ret(st, d, "ok")

\* HashExpectedParse, were the parse error returned with `?`
HashExpectedParseStrict(st, d, e) ==
    LET text == st.val["hash_expected_input"]
        value == PasswordHashStringNew(text)
    IN  IF e.fails \/ ~value.ok
        THEN Ret(st, Render(d, "hash_expected_parse", <<text, d["hash_expected_parse"][2]>>), "err")
        ELSE ThenSend(Ret(st, Render(d, "hash_expected_parse", <<text, Some("Ok")>>), "ok"),
                      "hash_expected", Some(value.v))

HashExpectedParse(st, d, e) ==
    LET text == st.val["hash_expected_input"]
        value == PasswordHashStringNew(text)
        shown == Some(IF value.ok THEN "Ok" ELSE value.err)
    IN  IF e.fails
        THEN Ret(st, Render(d, "hash_expected_parse", <<text, d["hash_expected_parse"][2]>>), "err")
        ELSE ThenSend(Ret(st, Render(d, "hash_expected_parse", <<text, shown>>), "ok"),
                      "hash_expected", IF value.ok THEN Some(value.v) ELSE None)

\* RecomputeHash, were a failure of hash_password swallowed and the old
\* hash left in place
RecomputeHashSilent(st, d, e) ==
    IF e.fails THEN Ret(st, d, "ok")
    ELSE ThenSend(Ret(st, d, "ok"), "hash_actual",
                  Some(PasswordHashString(st.val["password"], e.nonce)))

RecomputeHash(st, d, e) ==
    IF e.fails THEN Ret(st, d, "err")
    ELSE ThenSend(Ret(st, d, "ok"), "hash_actual",
                  Some(PasswordHashString(st.val["password"], e.nonce)))

\* RecomputeValidation, were the validation left as it is when there is no
\* parsed hash
RecomputeValidationKeep(st, d, e) ==
    LET hash_expected == st.val["hash_expected"]
    IN  IF IsSome(hash_expected)
        THEN ThenSend(Ret(st, d, "ok"), "password_validation",
                      Some(VerifyPassword(st.val["password"], Unwrap(hash_expected))))
        ELSE Ret(st, d, "ok")

RecomputeValidation(st, d, e) ==
    LET hash_expected == st.val["hash_expected"]
    IN  ThenSend(Ret(st, d, "ok"), "password_validation",
                 IF IsSome(hash_expected)
                 THEN Some(VerifyPassword(st.val["password"], Unwrap(hash_expected)))
                 ELSE None)

SaltDisplay(st, d, e) ==
    Ret(st, Render(d, "salt_display", st.val["salt"]), "ok")

SaltValidationDisplay(st, d, e) ==
    IF e.fails THEN Ret(st, d, "err")
    ELSE Ret(st, Render(d, "salt_validation_display", st.val["salt_validation"]), "ok")

KeyDisplay(st, d, e) ==
    Ret(st, Render(d, "key_display", st.val["key"]), "ok")

VisibleDisplay(st, d, e) ==
    IF e.fails THEN Ret(st, d, "err")
    ELSE Ret(st, Render(d, "visible_display",
                        IF st.val["visible"] THEN "text" ELSE "password"), "ok")

CopyIconDisplay(st, d, e) ==
    IF e.fails THEN Ret(st, d, "err")
    ELSE Ret(st, Render(d, "copy_icon_display",
                        IF st.val["copy_icon"] THEN "clipboard-check" ELSE "clipboard"), "ok")

\* RecomputeKey, were the password taken from the hash output on the page
\* instead of from the callback's argument
RecomputeKeyTorn(st, d, e) ==
    LET password == IF IsSome(d["hash_actual_display"])
                    THEN Unwrap(d["hash_actual_display"])[3]
                    ELSE st.val["password"]
        k == AlgorithmKey(st.val["algorithm"], password, st.val["salt"])
    IN  IF k.ok
        THEN ThenSend(ThenSend(Ret(st, d, "ok"), "salt_validation", Some("Ok")),
                      "key", Some(k.v))
        ELSE ThenSend(ThenSend(Ret(st, d, "ok"), "salt_validation", Some(k.err)),
                      "key", None)

\* RecomputeKey, were the key left as it is when the derivation fails
RecomputeKeyKeep(st, d, e) ==
    LET k == AlgorithmKeyIn(e, st.val["algorithm"], st.val["password"], st.val["salt"])
    IN  IF k.ok
        THEN ThenSend(ThenSend(Ret(st, d, "ok"), "salt_validation", Some("Ok")),
                      "key", Some(k.v))
        ELSE ThenSend(Ret(st, d, "ok"), "salt_validation", Some(k.err))

RecomputeKey(st, d, e) ==
    LET k == AlgorithmKeyIn(e, st.val["algorithm"], st.val["password"], st.val["salt"])
    IN  IF k.ok
        THEN ThenSend(ThenSend(Ret(st, d, "ok"), "salt_validation", Some("Ok")),
                      "key", Some(k.v))
        ELSE ThenSend(ThenSend(Ret(st, d, "ok"), "salt_validation", Some(k.err)),
                      "key", None)

Callback(w, st, d, e) ==
    CASE w = "password_display"            -> PasswordDisplay(st, d, e)
      [] w = "password_validation_display" -> PasswordValidationDisplay(st, d, e)
      [] w = "hash_actual_display"         -> HashActualDisplay(st, d, e)
      [] w = "hash_expected_parse"         -> HashExpectedParse(st, d, e)
      [] w = "hash"                        -> RecomputeHash(st, d, e)
      [] w = "validation"                  -> RecomputeValidation(st, d, e)
      [] w = "salt_display"                -> SaltDisplay(st, d, e)
      [] w = "salt_validation_display"     -> SaltValidationDisplay(st, d, e)
      [] w = "key_display"                 -> KeyDisplay(st, d, e)
      [] w = "visible_display"             -> VisibleDisplay(st, d, e)
      [] w = "copy_icon_display"           -> CopyIconDisplay(st, d, e)
      [] w = "key"                         -> RecomputeKey(st, d, e)

\* the callbacks that can return Err: a `?` on a DOM call or on hash_password
Fallible ==
    {"password_validation_display", "hash_expected_parse", "hash",
     "salt_validation_display", "visible_display", "copy_icon_display"}

\* what the environment can answer to one callback invocation when nothing
\* it is asked for fails
NoFault(w) ==
    [fails : {FALSE}, nonce : IF w = "hash" THEN Nonces ELSE {1}]

\* what the environment can answer when only the argon2 call of the key
\* callback can fail
DeriveFault(w) ==
    NoFault(w) \cup [fails : IF w = "key" THEN {TRUE} ELSE {}, nonce : {1}]

\* what the environment can answer to one callback invocation
Outcomes(w) ==
    NoFault(w) \cup [fails : IF w \in Fallible THEN {TRUE} ELSE {}, nonce : {1}]

----------------------------------------------------------------------------
(* watch1 / watch2 / watch3 and the try_join tree of start() *)

\* TryJoin, were it join: the result is known once every child has returned
TryJoinAll(p) ==
    IF \E w \in Watchers : p[w] = "stuck" THEN "stuck"
    ELSE IF \E w \in Watchers : p[w] \notin {"done", "failed"} THEN "running"
    ELSE IF \E w \in Watchers : p[w] = "failed" THEN "err"
    ELSE "ok"

\* futures::future::try_join over all watchers: Err as soon as one child
\* returns Err, Ok once every child has returned Ok.  A child stuck inside
\* its callback never returns, and with it the one thread of the program.
TryJoin(p) ==
    IF \E w \in Watchers : p[w] = "failed" THEN "err"
    ELSE IF \E w \in Watchers : p[w] = "stuck" THEN "stuck"
    ELSE IF \A w \in Watchers : p[w] = "done" THEN "ok"
    ELSE "running"

\* AfterCallback, were an Err of the callback swallowed and the loop continued
AfterCallbackRetry(status, sel) ==
    CASE status = "stuck" -> "stuck"
      [] sel = "Err"      -> "done"
      [] OTHER            -> "waiting"

\* where the loop of a watcher goes after f(..).await returned `status` and,
\* for Ok, the select that follows was polled once with result `sel`
AfterCallback(status, sel) ==
    CASE status = "err"   -> "failed"      \* `?` returns the error
      [] status = "stuck" -> "stuck"
      [] sel = "Err"      -> "done"        \* break Ok(())
      [] OTHER            -> "waiting"

\* the watcher's future completed with p[w]: it is dropped, and with it its
\* receivers and the Senders its callback owned
Finish(w, p, f, o) ==
    /\ pc' = p
    /\ result' = TryJoin(p)
    /\ open' = IF p[w] = "done" THEN [c \in Channels |-> o[c] /\ c \notin Tx(w)] ELSE o
    /\ chg' = IF p[w] = "done"
              THEN [r \in Receivers |-> IF r[1] = w THEN 0 ELSE f[r]]
              ELSE f

\* f(&*rx0.borrow_and_update(), ..).await? followed by the first poll of the
\* next changed() / try_select(..)
Invoke(w, e) ==
    LET r == Callback(w, BorrowAndUpdate([val |-> val, chg |-> chg], w), dom, e)
        sel == TrySelect(r.st.chg, w, 1)
    IN  /\ val' = r.st.val
        /\ dom' = r.dom
        /\ ret' = [ret EXCEPT ![w] = CASE r.status = "ok"  -> "Ok"
                                      [] r.status = "err" -> "Err"
                                      [] OTHER            -> @]
        /\ Finish(w, [pc EXCEPT ![w] = AfterCallback(r.status, sel)], r.st.chg, open)
        /\ UNCHANGED tasks

\* the pending changed() / try_select(..) resolves to Err: break Ok(())
Return(w) ==
    /\ Finish(w, [pc EXCEPT ![w] = "done"], chg, open)
    /\ UNCHANGED <<val, ret, dom, tasks>>

\* position of each watcher among the children of the try_join tree
IndexOf == [w \in Watchers |-> CHOOSE i \in 1..Len(WatcherOrder) : WatcherOrder[i] = w]
Index(w) == IndexOf[w]

\* Ready, were a watcher never woken after its first poll
ReadyOnce(w) == pc[w] = "start"

\* polling w would make progress: its first poll, or its select is ready
Ready(w) ==
    \/ pc[w] = "start"
    \/ pc[w] = "waiting" /\ TrySelect(chg, w, 1) # "Pending"

\* TryJoin::poll visits the children in order: the first child at or after
\* position i that is ready, 0 when there is none
RECURSIVE FirstReady(_)
FirstReady(i) ==
    IF i > Len(WatcherOrder) THEN 0
    ELSE IF Ready(WatcherOrder[i]) THEN i
    ELSE FirstReady(i + 1)

\* w is the next child the running poll (or, between polls, the poll the
\* last wake-up asked for) finds ready
NextPolled(w) == Index(w) = FirstReady(cursor)

\* the children that can be polled next: one at most
ToPoll == {WatcherOrder[i] : i \in {FirstReady(cursor)} \ {0}}

\* PollChild, were the loop of a watcher to wait for a change before it
\* calls f for the first time
PollChildWaitFirst(w, E) ==
    \/ /\ pc[w] = "start"
       /\ Finish(w, [pc EXCEPT ![w] = "waiting"], chg, open)
       /\ UNCHANGED <<val, ret, dom, tasks>>
    \/ /\ pc[w] = "waiting"
       /\ TrySelect(chg, w, 1) = "Ok"
       /\ \E e \in E : Invoke(w, e)
    \/ /\ pc[w] = "waiting"
       /\ TrySelect(chg, w, 1) = "Err"
       /\ Return(w)

\* one poll of a child that makes progress, the environment answering the
\* callback from E
PollChild(w, E) ==
    \/ /\ pc[w] = "start"
       /\ \E e \in E : Invoke(w, e)
    \/ /\ pc[w] = "waiting"
       /\ TrySelect(chg, w, 1) = "Ok"
       /\ \E e \in E : Invoke(w, e)
    \/ /\ pc[w] = "waiting"
       /\ TrySelect(chg, w, 1) = "Err"
       /\ Return(w)

\* the poll goes on to the children after w, and ends with the last child
\* or with the first Err
Polled(w, E) ==
    /\ result = "running"
    /\ NextPolled(w)
    /\ PollChild(w, E)
    /\ cursor' = IF result' = "running" /\ Index(w) < Len(WatcherOrder)
                 THEN Index(w) + 1 ELSE 1
    /\ burst' = 0
    /\ UNCHANGED <<enc, storage, thrown, hasher, drv, classes, input, select>>

Watch(w) == Polled(w, Outcomes(w))

\* the same in an environment where no DOM call and no hashing fails
WatchOk(w) == Polled(w, NoFault(w))

\* the same in an environment where only the key derivation can fail
WatchDerive(w) == Polled(w, DeriveFault(w))

\* the running poll finds no child after the cursor ready and returns Pending
PollEnd ==
    /\ result = "running"
    /\ cursor > 1
    /\ FirstReady(cursor) = 0
    /\ cursor' = 1
    /\ UNCHANGED <<val, open, chg, pc, ret, result, dom, burst, tasks, enc>>
    /\ UNCHANGED <<storage, thrown, hasher, drv, classes, input, select>>

----------------------------------------------------------------------------
(* The event handlers installed on the page *)

\* no watcher has anything to do: the task of the graph sleeps
Quiescent == FirstReady(1) = 0

\* the program runs an event handler or another task.  The executor polls a
\* woken task before the next event is delivered, so handlers run while the
\* graph sleeps, or back to back with one that has just run (events
\* dispatched from one script); and no send that found its value borrowed
\* has stopped the only thread
Alive ==
    /\ result # "stuck"
    /\ cursor = 1
    /\ burst > 0 \/ result # "running" \/ Quiescent

\* one more event handler or task step since the graph was last polled
Stepped ==
    burst < MaxBurst /\ burst' = IF result = "running" THEN burst + 1 ELSE burst

\* an event handler or a task step has run, one that does not touch the
\* local storage and does not return Err
Ran ==
    /\ Stepped
    /\ UNCHANGED <<enc, storage, thrown, hasher, drv, classes, input, select>>

Write(c, v) ==
    LET st == Send([val |-> val, chg |-> chg], c, v)
    IN  val' = st.val /\ chg' = st.chg

\* password onchange: tx.send(input.value())
PasswordOnChange(v) ==
    /\ Alive /\ Ran /\ open["password"]
    /\ Write("password", v)
    /\ UNCHANGED <<open, pc, ret, result, dom, cursor, tasks>>

\* password:clear onclick: tx.send(String::new())
PasswordClear ==
    /\ Alive /\ Ran /\ open["password"]
    /\ Write("password", "")
    /\ UNCHANGED <<open, pc, ret, result, dom, cursor, tasks>>

\* HashExpectedOnChange, were the handler to send the password again as well
HashExpectedOnChangeTouching(v) ==
    /\ Alive /\ Ran /\ open["hash_expected_input"]
    /\ LET st == Send(Send([val |-> val, chg |-> chg], "hash_expected_input", v),
                      "password", val["password"])
       IN  val' = st.val /\ chg' = st.chg
    /\ UNCHANGED <<open, pc, ret, result, dom, cursor, tasks>>

\* hash-expected onchange: tx.send(input.value())
HashExpectedOnChange(v) ==
    /\ Alive /\ Ran /\ open["hash_expected_input"]
    /\ Write("hash_expected_input", v)
    /\ UNCHANGED <<open, pc, ret, result, dom, cursor, tasks>>

\* hash-expected:load onclick: if let Some(value) = storage.get(STORAGE_KEY)?
\* { tx.send(value) }, the stored item being whatever the origin's local
\* storage holds
HashExpectedLoad(stored) ==
    /\ Alive /\ Ran /\ open["hash_expected_input"]
    /\ IF IsSome(stored)
       THEN Write("hash_expected_input", Unwrap(stored))
       ELSE UNCHANGED <<val, chg>>
    /\ UNCHANGED <<open, pc, ret, result, dom, cursor, tasks>>

\* what storage.get(STORAGE_KEY) can answer: the item, or an error
StorageGet == {[ok |-> TRUE, v |-> storage], [ok |-> FALSE]}

\* LoadOnClick, were a missing item an error
LoadOnClickStrict(got) ==
    IF got.ok /\ IsSome(got.v)
    THEN HashExpectedLoad(got.v)
    ELSE /\ Alive /\ Stepped /\ open["hash_expected_input"]
         /\ thrown' = TRUE
         /\ UNCHANGED <<val, open, chg, pc, ret, result, dom, cursor, tasks>>
         /\ UNCHANGED <<enc, storage, hasher, drv, classes, input, select>>

\* hash-expected:load onclick, the storage answering got: `?` returns the
\* error of storage.get, and the handler goes on as above with the item
LoadOnClick(got) ==
    IF got.ok
    THEN HashExpectedLoad(got.v)
    ELSE /\ Alive /\ Stepped /\ open["hash_expected_input"]
         /\ thrown' = TRUE
         /\ UNCHANGED <<val, open, chg, pc, ret, result, dom, cursor, tasks>>
         /\ UNCHANGED <<enc, storage, hasher, drv, classes, input, select>>

\* StoreOnClick, were the password the value that is stored
StoreOnClickPassword(fails) ==
    /\ Alive /\ Stepped
    /\ storage' = Some(<<val["password"]>>) /\ UNCHANGED thrown
    /\ UNCHANGED <<val, open, chg, pc, ret, result, dom, cursor, tasks>>
    /\ UNCHANGED <<enc, hasher, drv, classes, input, select>>

\* hash-actual:store onclick: if let Some(value) = &*rx.borrow()
\* { storage.set(STORAGE_KEY, value.as_str())?; }, where set can fail (the
\* quota of the origin is used up) and `?` returns its error
StoreOnClick(fails) ==
    /\ Alive /\ Stepped
    /\ IF IsSome(val["hash_actual"])
       THEN IF fails
            THEN thrown' = TRUE /\ UNCHANGED storage
            ELSE storage' = val["hash_actual"] /\ UNCHANGED thrown
       ELSE UNCHANGED <<storage, thrown>>
    /\ UNCHANGED <<val, open, chg, pc, ret, result, dom, cursor, tasks>>
    /\ UNCHANGED <<enc, hasher, drv, classes, input, select>>

\* AlgorithmOnChange, were the handler to clear the key itself
AlgorithmOnChangeClearing(a) ==
    /\ Alive /\ Ran /\ open["algorithm"]
    /\ LET st == Send(Send([val |-> val, chg |-> chg], "algorithm", a), "key", None)
       IN  val' = st.val /\ chg' = st.chg
    /\ UNCHANGED <<open, pc, ret, result, dom, cursor, tasks>>

\* algorithm onchange: tx.send(input.value().parse()?)
AlgorithmOnChange(a) ==
    /\ Alive /\ Ran /\ open["algorithm"]
    /\ Write("algorithm", a)
    /\ UNCHANGED <<open, pc, ret, result, dom, cursor, tasks>>

\* salt onchange: tx.send(input.value())
SaltOnChange(v) ==
    /\ Alive /\ Ran /\ open["salt"]
    /\ Write("salt", v)
    /\ UNCHANGED <<open, pc, ret, result, dom, cursor, tasks>>

\* key:toggle onclick: tx.send_modify(|v| *v = !*v), which does not ask for
\* a receiver
\* the toggle button showing the key whatever the flag was
ToggleOnClickShow ==
    /\ Alive /\ Ran /\ open["visible"]
    /\ val' = [val EXCEPT !["visible"] = TRUE]
    /\ chg' = Notify(chg, "visible")
    /\ UNCHANGED <<open, pc, ret, result, dom, cursor, tasks>>

ToggleOnClick ==
    /\ Alive /\ Ran /\ open["visible"]
    /\ val' = [val EXCEPT !["visible"] = ~@]
    /\ chg' = Notify(chg, "visible")
    /\ UNCHANGED <<open, pc, ret, result, dom, cursor, tasks>>

\* key:copy onclick: spawn_local(async move { .. })
CopyOnClick ==
    /\ Alive /\ Ran /\ open["copy_icon"]
    /\ TasksAlive < MaxCopyTasks
    /\ tasks' = [tasks EXCEPT !.spawned = @ + 1]
    /\ UNCHANGED <<val, open, chg, pc, ret, result, dom, cursor>>

\* first poll of a copy task: `if let Some(value) = &*rx.borrow()` and, with
\* the Ref alive, JsFuture::from(clipboard.write_text(value)).await
CopyBorrow ==
    /\ Alive /\ Ran /\ tasks.spawned > 0
    /\ tasks' = IF IsSome(val["key"])
                THEN [tasks EXCEPT !.spawned = @ - 1, !.writing = @ + 1]
                ELSE [tasks EXCEPT !.spawned = @ - 1]
    /\ UNCHANGED <<val, open, chg, pc, ret, result, dom, cursor>>

\* the clipboard promise settles: rejected, `?` ends the task; fulfilled,
\* copy_icon_tx.send(true) and sleep(1s).await
CopyWritten(fulfilled) ==
    /\ Alive /\ Ran /\ tasks.writing > 0
    /\ IF fulfilled
       THEN /\ Write("copy_icon", TRUE)
            /\ tasks' = [tasks EXCEPT !.writing = @ - 1, !.sleeping = @ + 1]
       ELSE /\ tasks' = [tasks EXCEPT !.writing = @ - 1]
            /\ UNCHANGED <<val, chg>>
    /\ UNCHANGED <<open, pc, ret, result, dom, cursor>>

\* the timer fires and the task ends, the check mark left in place
CopySleptKeep ==
    /\ Alive /\ Ran /\ tasks.sleeping > 0
    /\ tasks' = [tasks EXCEPT !.sleeping = @ - 1]
    /\ UNCHANGED <<val, open, chg, pc, ret, result, dom, cursor>>

\* the timer fires: copy_icon_tx.send(false), the Ref is released
CopySlept ==
    /\ Alive /\ Ran /\ tasks.sleeping > 0
    /\ Write("copy_icon", FALSE)
    /\ tasks' = [tasks EXCEPT !.sleeping = @ - 1]
    /\ UNCHANGED <<open, pc, ret, result, dom, cursor>>

\* the closures holding the Senders of an input channel are released by the
\* page (Closure::into_js_value hands them to the JS garbage collector)
DropSenders(c) ==
    /\ Alive /\ Ran /\ open[c]
    /\ open' = [open EXCEPT ![c] = FALSE]
    /\ UNCHANGED <<val, chg, pc, ret, result, dom, cursor, tasks>>

----------------------------------------------------------------------------
(* The state after start() has built the graph and before its first poll *)

Constructed ==
    /\ val = [c \in Channels |->
                CASE c = "password"            -> ""
                  [] c = "password_validation" -> None
                  [] c = "hash_actual"         -> None
                  [] c = "hash_expected_input" -> <<>>
                  [] c = "hash_expected"       -> None
                  [] c = "algorithm"           -> DefaultAlgorithm
                  [] c = "salt"                -> ""
                  [] c = "salt_validation"     -> None
                  [] c = "key"                 -> None
                  [] c = "visible"             -> FALSE
                  [] c = "copy_icon"           -> FALSE]
    /\ open = [c \in Channels |-> TRUE]
    /\ chg = [r \in Receivers |-> 0]
    /\ pc = [w \in Watchers |-> "start"]
    /\ ret = [w \in Watchers |-> "none"]
    /\ result = "running"
    /\ dom = [w \in Watchers |->
                CASE w = "password_display"    -> ""
                  [] w = "salt_display"        -> ""
                  [] w = "hash_expected_parse" -> <<<<>>, None>>
                  [] w = "visible_display"     -> "password"
                  [] w = "copy_icon_display"   -> "clipboard"
                  [] OTHER                     -> None]
    /\ cursor = 1
    /\ burst = 0
    /\ tasks = [spawned |-> 0, writing |-> 0, sleeping |-> 0]

\* no conversion is being evaluated
NoCall ==
    [fn |-> "none", key |-> <<>>, chars |-> <<>>, count |-> 0,
     i |-> 0, remainder |-> <<>>, out |-> None]

\* no input group, no InputState and no SelectState is being followed
Unshown ==
    /\ classes = <<>>
    /\ input = [fn |-> "none"]
    /\ select = [fn |-> "none"]

\* nothing is stored, no handler has failed, and no s2k and no derivation is
\* being traced
Untraced ==
    /\ storage = None
    /\ thrown = FALSE
    /\ hasher = [fn |-> "none"]
    /\ drv = [fn |-> "none"]
    /\ Unshown

Init == Constructed /\ enc = NoCall /\ Untraced

\* the four inputs being edited, every handler staying installed
Next ==
    \/ \E w \in ToPoll : Watch(w)
    \/ PollEnd
    \/ \E v \in Passwords : PasswordOnChange(v)
    \/ PasswordClear
    \/ \E v \in HashTexts : HashExpectedOnChange(v)
    \/ \E a \in Algorithms : AlgorithmOnChange(a)
    \/ \E v \in Salts : SaltOnChange(v)

Spec == Init /\ [][Next]_vars

\* the key being shown and copied while the inputs it is derived from change
NextCopy ==
    \/ \E w \in ToPoll : WatchOk(w)
    \/ PollEnd
    \/ \E v \in Passwords : PasswordOnChange(v)
    \/ \E a \in Algorithms : AlgorithmOnChange(a)
    \/ ToggleOnClick
    \/ CopyOnClick
    \/ CopyBorrow
    \/ \E fulfilled \in BOOLEAN : CopyWritten(fulfilled)
    \/ CopySlept

SpecCopy == Init /\ [][NextCopy]_vars

\* the page being torn down while a password is still typed in, nothing the
\* callbacks ask for failing
NextClose ==
    \/ \E w \in ToPoll : WatchOk(w)
    \/ PollEnd
    \/ PasswordOnChange("a")
    \/ \E c \in InputChannels : DropSenders(c)

SpecClose == Init /\ [][NextClose]_vars

\* a woken task is polled by the executor
FairClose == SpecClose /\ WF_vars((\E w \in ToPoll : WatchOk(w)) \/ PollEnd)

\* the salt being edited and the password typed in while the closures of the
\* password input are released and callbacks may fail
NextLive ==
    \/ \E w \in ToPoll : Watch(w)
    \/ PollEnd
    \/ \E v \in Passwords : PasswordOnChange(v)
    \/ \E v \in Salts : SaltOnChange(v)
    \/ \E c \in {"password", "salt"} : DropSenders(c)

SpecLive == Init /\ [][NextLive]_vars

\* a woken task is polled by the executor
FairLive == SpecLive /\ WF_vars((\E w \in ToPoll : Watch(w)) \/ PollEnd)

\* the inputs of the key being edited while the argon2 call may fail
NextDerive ==
    \/ \E w \in ToPoll : WatchDerive(w)
    \/ PollEnd
    \/ \E v \in Passwords : PasswordOnChange(v)
    \/ \E a \in Algorithms : AlgorithmOnChange(a)
    \/ \E v \in Salts : SaltOnChange(v)

SpecDerive == Init /\ [][NextDerive]_vars

\* every input being edited, nothing the callbacks ask for failing
NextEdit ==
    \/ \E w \in ToPoll : WatchOk(w)
    \/ PollEnd
    \/ \E v \in Passwords : PasswordOnChange(v)
    \/ PasswordClear
    \/ \E v \in HashTexts : HashExpectedOnChange(v)
    \/ \E stored \in {None} \cup {Some(v) : v \in HashTexts} : HashExpectedLoad(stored)
    \/ \E a \in Algorithms : AlgorithmOnChange(a)
    \/ \E v \in Salts : SaltOnChange(v)

SpecEdit == Init /\ [][NextEdit]_vars

\* what the local storage can hold when the page is opened: nothing, or an
\* item left by an earlier visit
StoredAtStart == {None, Some(<<"junk">>)}

InitStore ==
    /\ Constructed /\ enc = NoCall
    /\ storage \in StoredAtStart
    /\ thrown = FALSE /\ hasher = [fn |-> "none"] /\ drv = [fn |-> "none"]
    /\ Unshown

\* passwords being typed in and hashes being stored and loaded, calls of the
\* callbacks and of the storage failing or not
NextStore ==
    \/ \E w \in ToPoll : Watch(w)
    \/ PollEnd
    \/ \E v \in Passwords : PasswordOnChange(v)
    \/ \E fails \in BOOLEAN : StoreOnClick(fails)
    \/ \E got \in StorageGet : LoadOnClick(got)

SpecStore == InitStore /\ [][NextStore]_vars

----------------------------------------------------------------------------
(* encode of s2k.rs and the 6-digit formatting of algorithm.rs *)

\* the bytes a key or digest is made of
Bytes == {0, 101, 107, 121, 255}

\* the byte strings handed to encode
Keys == UNION {[1..l -> Bytes] : l \in 0..MaxKeyLen}

\* first..=last as the sequence of its char codes
CharRange(first, last) == [k \in 1..(last - first + 1) |-> first + k - 1]

\* '0'..='9'
Digits == CharRange(48, 57)

\* the `chars` arguments: '0'..='1', '0'..='7', '0'..='9',
\* ('0'..='9').chain('a'..='f') and char::from(0x00)..=char::from(0xff)
Alphabets ==
    {CharRange(48, 49), CharRange(48, 55), Digits,
     CharRange(48, 57) \o CharRange(97, 102), CharRange(0, 255)}

\* n to the power c is at most lim
RECURSIVE PowerAtMost(_, _, _)
PowerAtMost(n, c, lim) ==
    IF c = 0 THEN lim >= 1 ELSE PowerAtMost(n, c - 1, lim \div n)

\* the digit counts tried with an alphabet of n symbols: those for which the
\* number the result stands for, times 256, stays below 2^31
Counts(n) == {c \in 0..MaxCount : PowerAtMost(n, c, 8388607)}

\* the calls encode(key, chars, count)
EncodeCalls ==
    {[fn |-> "encode", key |-> call[1], chars |-> call[2], count |-> call[3],
      i |-> 0, remainder |-> [k \in 1..call[3] |-> 0], out |-> None] :
        call \in {c \in Keys \X Alphabets \X (0..MaxCount) : c[3] \in Counts(Len(c[2]))}}

\* the digests the 6-digit variant of algorithm.rs formats: `let mut key = [0u8; 4]`
FormatCalls ==
    {[fn |-> "format", key |-> k, chars |-> Digits, count |-> 6,
      i |-> 0, remainder |-> <<>>, out |-> None] : k \in [1..4 -> Bytes]}

\* CarryOnce, were the digits visited most significant first
RECURSIVE CarryForward(_, _, _, _)
CarryForward(remainder, j, b, n) ==
    IF j = 0 THEN remainder
    ELSE LET k == Len(remainder) + 1 - j
             t == remainder[k] * 256 + b
         IN  CarryForward([remainder EXCEPT ![k] = t % n], j - 1, t \div n, n)

\* for r in remainder.iter_mut().rev() { let s = (*r << 8) + b; b = s / n;
\* *r = s % n; } from digit j down to the first
RECURSIVE CarryOnce(_, _, _, _)
CarryOnce(remainder, j, b, n) ==
    IF j = 0 THEN remainder
    ELSE LET t == remainder[j] * 256 + b
         IN  CarryOnce([remainder EXCEPT ![j] = t % n], j - 1, t \div n, n)

\* CarrySteps, were the whole of s handed on as the carry
RECURSIVE CarryStepsWhole(_, _, _, _)
CarryStepsWhole(remainder, j, b, n) ==
    IF j = 0 THEN <<>>
    ELSE LET t == remainder[j] * 256 + b
         IN  <<[s |-> t, b |-> t, r |-> t % n]>>
                 \o CarryStepsWhole(remainder, j - 1, t, n)

\* the locals of the inner loop of one turn, digit by digit from digit j down
\* to the first: s = (*r << 8) + b, the new b = s / n, the new *r = s % n
RECURSIVE CarrySteps(_, _, _, _)
CarrySteps(remainder, j, b, n) ==
    IF j = 0 THEN <<>>
    ELSE LET t == remainder[j] * 256 + b
         IN  <<[s |-> t, b |-> t \div n, r |-> t % n]>>
                 \o CarrySteps(remainder, j - 1, t \div n, n)

\* one turn of `for b in key`
EncodeByte ==
    /\ enc.fn = "encode" /\ enc.i < Len(enc.key)
    /\ enc' = [enc EXCEPT
                 !.i = @ + 1,
                 !.remainder = CarryOnce(@, enc.count, enc.key[enc.i + 1], Len(enc.chars))]
    /\ UNCHANGED <<val, open, chg, pc, ret, result, dom, cursor, burst, tasks>>
    /\ UNCHANGED <<storage, thrown, hasher, drv, classes, input, select>>

\* remainder.into_iter().map(|r| chars.clone().into_iter().nth(r as _).unwrap()).collect()
EncodeCollect ==
    /\ enc.fn = "encode" /\ enc.i = Len(enc.key) /\ enc.out = None
    /\ enc' = [enc EXCEPT !.out = Some([k \in 1..enc.count |-> enc.chars[enc.remainder[k] + 1]])]
    /\ UNCHANGED <<val, open, chg, pc, ret, result, dom, cursor, burst, tasks>>
    /\ UNCHANGED <<storage, thrown, hasher, drv, classes, input, select>>

\* the big-endian value of the first i bytes of key, modulo m
RECURSIVE ValueMod(_, _, _)
ValueMod(key, i, m) ==
    IF i = 0 THEN 0 ELSE (ValueMod(key, i - 1, m) * 256 + key[i]) % m

\* the decimal digits of v, as Display for u32 writes them
RECURSIVE Decimal(_)
Decimal(v) ==
    IF v < 10 THEN <<Digits[v + 1]>> ELSE Decimal(v \div 10) \o <<Digits[(v % 10) + 1]>>

\* FormatWidth6, were the value written without a width
FormatPlain(v) == Decimal(v)

\* format!("{:06}", v): the decimal digits, zero-padded on the left to a
\* width of at least 6
FormatWidth6(v) ==
    [k \in 1..(IF Len(Decimal(v)) < 6 THEN 6 - Len(Decimal(v)) ELSE 0) |-> Digits[1]]
        \o Decimal(v)

\* Argon2id6 of algorithm.rs: format!("{:06}", u32::from_be_bytes(key) % 1_000_000)
FormatKey ==
    /\ enc.fn = "format" /\ enc.out = None
    /\ enc' = [enc EXCEPT !.i = Len(enc.key),
                          !.out = Some(FormatWidth6(ValueMod(enc.key, Len(enc.key), 1000000)))]
    /\ UNCHANGED <<val, open, chg, pc, ret, result, dom, cursor, burst, tasks>>
    /\ UNCHANGED <<storage, thrown, hasher, drv, classes, input, select>>

InitEncode == Constructed /\ enc \in EncodeCalls \cup FormatCalls /\ Untraced

NextEncode ==
    \/ EncodeByte
    \/ EncodeCollect
    \/ FormatKey

SpecEncode == InitEncode /\ [][NextEncode]_vars

----------------------------------------------------------------------------
(* s2k of algorithm.rs *)

\* the bytes of a salt and of a passphrase
SaltBytes == {1, 2}
PassphraseBytes == {3, 4}

\* the calls s2k::<D>(salt, passphrase, count)
S2kCalls ==
    {[fn |-> "s2k", salt |-> call[1], passphrase |-> call[2], count |-> call[3],
      taken |-> 0, pos |-> 0, fed |-> <<>>, done |-> FALSE, out |-> None] :
        call \in (UNION {[1..l -> SaltBytes] : l \in 0..MaxS2kLen})
                 \X (UNION {[1..l -> PassphraseBytes] : l \in 0..MaxS2kLen})
                 \X (0..MaxS2kCount)}

\* Chain, were the passphrase put before the salt
ChainSwapped(salt, passphrase) == passphrase \o salt

\* salt.iter().chain(passphrase): the bytes of one pass
Chain(salt, passphrase) == salt \o passphrase

\* D::finalize: the digest of the bytes fed, kept as those bytes
Finalize(fed) == <<"digest", fed>>

\* one call of next() on .cycle().take(count) by the `for` loop.  Take gives
\* None once it has handed out count items, and counts an item before it asks
\* Cycle for it; Cycle starts the pass again when the pass is exhausted, and
\* gives None when the fresh pass is empty as well.  A byte that comes out is
\* fed: hasher.update([b])
S2kNext ==
    /\ hasher.fn = "s2k" /\ ~hasher.done
    /\ LET bytes == Chain(hasher.salt, hasher.passphrase)
       IN  hasher' =
             IF hasher.taken = hasher.count
             THEN [hasher EXCEPT !.done = TRUE]
             ELSE IF hasher.pos < Len(bytes)
             THEN [hasher EXCEPT !.taken = @ + 1, !.pos = @ + 1,
                                 !.fed = Append(@, bytes[hasher.pos + 1])]
             ELSE IF Len(bytes) > 0
             THEN [hasher EXCEPT !.taken = @ + 1, !.pos = 1,
                                 !.fed = Append(@, bytes[1])]
             ELSE [hasher EXCEPT !.taken = @ + 1, !.done = TRUE]
    /\ UNCHANGED <<val, open, chg, pc, ret, result, dom, cursor, burst, tasks>>
    /\ UNCHANGED <<enc, storage, thrown, drv, classes, input, select>>

\* hasher.finalize()
S2kFinalize ==
    /\ hasher.fn = "s2k" /\ hasher.done /\ hasher.out = None
    /\ hasher' = [hasher EXCEPT !.out = Some(Finalize(hasher.fed))]
    /\ UNCHANGED <<val, open, chg, pc, ret, result, dom, cursor, burst, tasks>>
    /\ UNCHANGED <<enc, storage, thrown, drv, classes, input, select>>

InitS2k ==
    /\ Constructed /\ enc = NoCall
    /\ storage = None /\ thrown = FALSE /\ drv = [fn |-> "none"] /\ Unshown
    /\ hasher \in S2kCalls

NextS2k ==
    \/ S2kNext
    \/ S2kFinalize

SpecS2k == InitS2k /\ [][NextS2k]_vars

----------------------------------------------------------------------------
(* Algorithm::key for the fixed-width variants, and what the key callback   *)
(* does with its result                                                      *)

KeyAlgorithms == {"Argon2id256", "Argon2id512"}

\* passwords and salts as bytes: "" and "a"; "" and "salt2025"
KeyPasswords == {<<>>, <<97>>}
KeySalts == {<<>>, <<115, 97, 108, 116, 50, 48, 50, 53>>}

\* [0u8; 32] and [0u8; 64]: the length of the `key` buffer of each variant
KeyLen(algorithm) == IF algorithm = "Argon2id256" THEN 32 ELSE 64

RECURSIVE Sum(_)
Sum(bytes) == IF Len(bytes) = 0 THEN 0 ELSE bytes[1] + Sum(Tail(bytes))

\* Argon2::hash_password_into(password, salt, out): out is filled with a
\* fixed function of the password, the salt and the length of out (the
\* parameters of `argon2` never change); the function used here stands for
\* Argon2id
HashPasswordInto(password, salt, len) ==
    [k \in 1..len |-> (Sum(password) * 7 + Sum(salt) * 13 + k * 31 + len * 3) % 256]

\* the base64 alphabet: A-Z a-z 0-9 + /
Base64Char(i) ==
    IF i < 26 THEN 65 + i
    ELSE IF i < 52 THEN 97 + (i - 26)
    ELSE IF i < 62 THEN 48 + (i - 52)
    ELSE IF i = 62 THEN 43 ELSE 47

\* Base64Encode, were the engine one that does not pad
RECURSIVE Base64EncodeNoPad(_)
Base64EncodeNoPad(bytes) ==
    IF Len(bytes) = 0 THEN <<>>
    ELSE IF Len(bytes) = 1
    THEN << Base64Char(bytes[1] \div 4), Base64Char((bytes[1] % 4) * 16) >>
    ELSE IF Len(bytes) = 2
    THEN << Base64Char(bytes[1] \div 4),
            Base64Char((bytes[1] % 4) * 16 + bytes[2] \div 16),
            Base64Char((bytes[2] % 16) * 4) >>
    ELSE << Base64Char(bytes[1] \div 4),
            Base64Char((bytes[1] % 4) * 16 + bytes[2] \div 16),
            Base64Char((bytes[2] % 16) * 4 + bytes[3] \div 64),
            Base64Char(bytes[3] % 64) >>
         \o Base64EncodeNoPad(SubSeq(bytes, 4, Len(bytes)))

\* BASE64_STANDARD.encode(bytes): three bytes give four chars, and a last
\* group of one or two bytes is padded with '=' to four chars
RECURSIVE Base64Encode(_)
Base64Encode(bytes) ==
    IF Len(bytes) = 0 THEN <<>>
    ELSE IF Len(bytes) = 1
    THEN << Base64Char(bytes[1] \div 4), Base64Char((bytes[1] % 4) * 16), 61, 61 >>
    ELSE IF Len(bytes) = 2
    THEN << Base64Char(bytes[1] \div 4),
            Base64Char((bytes[1] % 4) * 16 + bytes[2] \div 16),
            Base64Char((bytes[2] % 16) * 4), 61 >>
    ELSE << Base64Char(bytes[1] \div 4),
            Base64Char((bytes[1] % 4) * 16 + bytes[2] \div 16),
            Base64Char((bytes[2] % 16) * 4 + bytes[3] \div 64),
            Base64Char(bytes[3] % 64) >>
         \o Base64Encode(SubSeq(bytes, 4, Len(bytes)))

\* the arguments of a derivation
KeyInputs == KeyAlgorithms \X KeyPasswords \X KeySalts

\* the key callback is invoked: algorithm.key(argon2, password, salt) is
\* entered and `let mut key = [0u8; N]` makes its buffer
KeyCall(algorithm, password, salt) ==
    /\ drv.fn = "key" /\ drv.at = "idle"
    /\ drv' = [drv EXCEPT !.at = "hashing",
                          !.algorithm = algorithm, !.password = password, !.salt = salt,
                          !.key = [k \in 1..KeyLen(algorithm) |-> 0],
                          !.out = None]
    /\ UNCHANGED <<val, open, chg, pc, ret, result, dom, cursor, burst, tasks>>
    /\ UNCHANGED <<enc, storage, thrown, hasher, classes, input, select>>

\* argon2.hash_password_into(password, salt, &mut key): a salt that is too
\* short is refused before anything is written to key
KeyHash ==
    /\ drv.fn = "key" /\ drv.at = "hashing"
    /\ drv' = IF Len(drv.salt) < MIN_SALT_LEN
              THEN [drv EXCEPT !.at = "failed"]
              ELSE [drv EXCEPT !.at = "filled",
                               !.key = HashPasswordInto(drv.password, drv.salt, Len(drv.key))]
    /\ UNCHANGED <<val, open, chg, pc, ret, result, dom, cursor, burst, tasks>>
    /\ UNCHANGED <<enc, storage, thrown, hasher, classes, input, select>>

\* .map(|_| BASE64_STANDARD.encode(key)) and the return of Algorithm::key:
\* the scope of `key` ends, and a plain array is given back as it is
KeyEncode ==
    /\ drv.fn = "key" /\ drv.at = "filled"
    /\ drv' = [drv EXCEPT !.at = "encoded",
                          !.out = Some(Base64Encode(drv.key)),
                          !.released = @ \cup {drv.key}]
    /\ UNCHANGED <<val, open, chg, pc, ret, result, dom, cursor, burst, tasks>>
    /\ UNCHANGED <<enc, storage, thrown, hasher, classes, input, select>>

\* Ok(v) => key.send(Some(v)), Err(e) => key.send(None): the value the
\* channel held is replaced and dropped, and a String that is dropped gives
\* its bytes back as they are
KeySend ==
    /\ drv.fn = "key" /\ drv.at \in {"encoded", "failed"}
    /\ drv' = [drv EXCEPT !.at = "idle",
                          !.held = drv.out,
                          !.released = @ \cup (IF drv.at = "failed" THEN {drv.key} ELSE {})
                                         \cup (IF IsSome(drv.held) THEN {Unwrap(drv.held)} ELSE {}),
                          !.memo = IF drv.at = "encoded"
                                   THEN [@ EXCEPT ![<<drv.algorithm, drv.password, drv.salt>>] = drv.out]
                                   ELSE @]
    /\ UNCHANGED <<val, open, chg, pc, ret, result, dom, cursor, burst, tasks>>
    /\ UNCHANGED <<enc, storage, thrown, hasher, classes, input, select>>

\* the key channel holds None (lib.rs 351) and nothing has been derived
InitKey ==
    /\ Constructed /\ enc = NoCall
    /\ storage = None /\ thrown = FALSE /\ hasher = [fn |-> "none"] /\ Unshown
    /\ drv = [fn |-> "key", at |-> "idle",
              algorithm |-> DefaultAlgorithm, password |-> <<>>, salt |-> <<>>,
              key |-> <<>>, out |-> None, held |-> None, released |-> {},
              memo |-> [i \in KeyInputs |-> None]]

NextKey ==
    \/ \E i \in KeyInputs : KeyCall(i[1], i[2], i[3])
    \/ KeyHash
    \/ KeyEncode
    \/ KeySend

SpecKey == InitKey /\ [][NextKey]_vars

----------------------------------------------------------------------------
(* Properties *)

\* this step runs the callback of w: its first poll, or a poll that finds an
\* unseen version and marks it seen
Invoked(w) ==
    \/ pc[w] = "start" /\ pc'[w] # "start"
    \/ /\ pc[w] = "waiting" /\ TrySelect(chg, w, 1) = "Ok"
       /\ \E c \in RxSet(w) : chg'[<<w, c>>] < chg[<<w, c>>]

\* every watcher sits in its changed().await and none has anything unseen
\* or a closure to act on
AllIdle ==
    /\ result = "running" /\ cursor = 1
    /\ \A w \in Watchers : pc[w] = "waiting"
    /\ Quiescent

\* C1: once every watcher is idle, each derived field is the function of the
\* latest written inputs: salt validation and key are derive(algorithm,
\* password, salt), the parsed expected hash is the parse of the latest text,
\* password validation is verify(password, parsed expected hash), and the
\* hash output is a hash of the latest password.
C1_QuiescentDerived ==
    AllIdle =>
        LET k == AlgorithmKey(val["algorithm"], val["password"], val["salt"])
            h == PasswordHashStringNew(val["hash_expected_input"])
        IN  /\ val["salt_validation"] = Some(IF k.ok THEN "Ok" ELSE k.err)
            /\ val["key"] = (IF k.ok THEN Some(k.v) ELSE None)
            /\ val["hash_expected"] = (IF h.ok THEN Some(h.v) ELSE None)
            /\ val["password_validation"] =
                 (IF h.ok THEN Some(VerifyPassword(val["password"], h.v)) ELSE None)
            /\ IsSome(val["hash_actual"])
            /\ Unwrap(val["hash_actual"])[3] = val["password"]

\* every input has been written away from its initial value and the graph
\* has come to rest
C1_Witness ==
    /\ AllIdle
    /\ val["password"] = "b"
    /\ val["salt"] = "salt2025"
    /\ val["algorithm"] = "Argon2id6"
    /\ val["hash_expected_input"] = PasswordHashString("a", 1)

\* C2: once a callback has returned Err the joined future has failed, at
\* once and for good: it never becomes Ok, and no watcher is polled again
\* (no callback runs, nothing is rendered, no derived field is written),
\* whatever is pending for the siblings.
C2_FailFast ==
    /\ []((\E w \in Watchers : ret[w] = "Err") => result = "err")
    /\ [][(\E w \in Watchers : ret[w] = "Err") =>
            /\ result' = "err"
            /\ pc' = pc /\ ret' = ret /\ dom' = dom
            /\ \A c \in DerivedChannels : val'[c] = val[c]]_vars

\* a callback has failed while a sibling, all of whose channels are open,
\* had an unseen version to recompute for
C2_Witness ==
    /\ result = "err"
    /\ \E u \in Watchers :
         /\ pc[u] = "waiting" /\ TrySelect(chg, u, 1) = "Ok"
         /\ \A c \in RxSet(u) : open[c]

\* C8: a write to a field never blocks: no send of a watcher callback finds
\* the value of its channel borrowed by a suspended reader.
C8_WriteNeverBlocks ==
    /\ result # "stuck"
    /\ \A w \in Watchers : pc[w] # "stuck"

\* C10: a watcher whose callback returned Err has returned that error; it
\* stays returned: its callback is not run again and it marks nothing seen.
C10_NoRetry ==
    /\ [](\A w \in Watchers : ret[w] = "Err" => pc[w] = "failed")
    /\ [][\A w \in Watchers : pc[w] = "failed" =>
            /\ pc'[w] = "failed" /\ ret'[w] = "Err" /\ dom'[w] = dom[w]
            /\ \A c \in RxSet(w) : chg'[<<w, c>>] = chg[<<w, c>>]]_vars

\* the hashing callback has returned Err and its watcher has ended with it
C10_Witness ==
    /\ pc["hash"] = "failed" /\ ret["hash"] = "Err"
    /\ \A w \in Watchers \ {"hash"} : pc[w] # "failed"

\* C3: once the Sender of every input channel has been dropped, every
\* watcher returns Ok and the joined future completes with Ok.
C3_AllDroppedCompletes ==
    (\A c \in InputChannels : ~open[c]) ~> (result = "ok")

\* the joined future has completed with Ok, every watcher having returned
\* Ok and every channel, derived ones included, being closed
C3_Witness ==
    /\ result = "ok"
    /\ \A w \in Watchers : pc[w] = "done" /\ ret[w] = "Ok"
    /\ \A c \in Channels : ~open[c]

\* C4 as stated: watch2 / watch3 has returned Ok only if every channel it
\* watches is closed.
C4_ReturnsOnlyWhenAllClosed ==
    \A w \in {"validation", "key"} :
        pc[w] = "done" => \A c \in RxSet(w) : Closed(c)

\* C4 as the code has it: watch1 / watch2 / watch3 has returned Ok only if
\* at least one channel it watches is closed; while all of them are open it
\* has not returned.
C4_ReturnsOnlyWhenSomeClosed ==
    \A w \in Watchers :
        pc[w] = "done" => \E c \in RxSet(w) : Closed(c)

\* watch3 has returned Ok with one of its three channels closed and the
\* other two open
C4_Witness ==
    /\ pc["key"] = "done" /\ ret["key"] = "Ok"
    /\ ~open["password"] /\ open["algorithm"] /\ open["salt"]

\* no watcher with a closed channel is still running
NoneLeftBehind ==
    \A w \in Watchers :
        (\E c \in RxSet(w) : Closed(c)) => (pc[w] = "done" /\ ret[w] = "Ok")

\* C5: once any one channel a watcher watches is closed, the watcher
\* eventually returns Ok, whatever the state of its other channels: a closed
\* channel stays closed and a returned watcher stays returned, and again and
\* again every watcher that has a closed channel has returned Ok.
C5_ClosedChannelEndsWatcher ==
    /\ [][\A c \in Channels : Closed(c) => Closed(c)']_vars
    /\ [][\A w \in Watchers : pc[w] = "done" => pc'[w] = "done"]_vars
    /\ []<>NoneLeftBehind

\* watch2 has returned Ok after its second channel was closed, the first one
\* being open and still written
C5_Witness ==
    /\ pc["validation"] = "done" /\ ret["validation"] = "Ok"
    /\ open["password"] /\ ~open["hash_expected"]
    /\ val["password"] # ""

\* C6: the callback of watch2 / watch3 computes from the values its channels
\* hold at the one instant it is invoked: what it writes is the function of
\* the values held by all of its channels at that instant.
C6_ConsistentSnapshot ==
    [][/\ (Invoked("key") /\ pc'["key"] \in {"waiting", "done"}) =>
            LET k == AlgorithmKey(val["algorithm"], val["password"], val["salt"])
            IN  /\ val'["salt_validation"] = Some(IF k.ok THEN "Ok" ELSE k.err)
                /\ val'["key"] = (IF k.ok THEN Some(k.v) ELSE None)
       /\ (Invoked("validation") /\ pc'["validation"] \in {"waiting", "done"}) =>
            val'["password_validation"] =
                (IF IsSome(val["hash_expected"])
                 THEN Some(VerifyPassword(val["password"], Unwrap(val["hash_expected"])))
                 ELSE None)]_vars

\* the key has been derived from a password, an algorithm and a salt that
\* were all written after start, two of them in the same burst
C6_Witness ==
    /\ pc["key"] = "waiting"
    /\ val["key"] = Some(<<"S2kSha256", "b", "salt2025">>)
    /\ val["password_validation"] = Some("Password")

\* C7: a channel holds its latest value only: a watch1 reader invoked after
\* several writes is handed the last one, is left with nothing unseen, and
\* so runs once for all of them.
C7_LatestValueOnly ==
    [][\A w \in {"password_display", "salt_display", "key_display",
                 "hash_actual_display", "password_validation_display"} :
          Invoked(w) =>
            /\ chg'[<<w, Rx(w)[1]>>] = 0
            /\ w \in {"password_display", "salt_display", "key_display"} =>
                 dom'[w] = val[Rx(w)[1]]
            /\ pc'[w] = "waiting" => ~Ready(w)']_vars

\* two writes of the password that its display watcher has not read yet
C7_Witness ==
    /\ chg[<<"password_display", "password">>] = 2
    /\ pc["password_display"] = "waiting"
    /\ val["password"] = "b" /\ dom["password_display"] = ""

\* C9: the receivers of a channel do not interfere: a read by one watcher
\* leaves what every other receiver has unseen as it was, and a write that
\* one receiver of a channel gets notice of, all its live receivers get
\* notice of.
C9_IndependentReaders ==
    [][/\ \A w \in Watchers : Invoked(w) =>
            \A r \in Receivers : r[1] # w => chg'[r] >= chg[r]
       /\ \A r1, r2 \in Receivers :
            (r1[2] = r2[2] /\ chg'[r1] > chg[r1] /\ Listening(r2[1])') =>
                chg'[r2] > chg[r2]]_vars

\* mid-poll after a password write: the display watcher has read the new
\* password while the hash, validation and key watchers still have it unseen
C9_Witness ==
    /\ cursor > 1
    /\ chg[<<"password_display", "password">>] = 0
    /\ dom["password_display"] = "a" /\ val["password"] = "a"
    /\ chg[<<"hash", "password">>] > 0
    /\ chg[<<"validation", "password">>] > 0
    /\ chg[<<"key", "password">>] > 0

\* the receivers of the input channels
InputReceivers == {r \in Receivers : r[2] \in InputChannels}

\* C11 as stated: a write to an input channel that a watcher has not seen is
\* never discarded, only read by an invocation of that watcher's callback,
\* which reads the latest value of all its channels; and under fair
\* scheduling every such write gets read.
C11_EveryWriteObserved ==
    /\ [][\A r \in InputReceivers : (chg[r] > 0 /\ chg'[r] = 0) =>
            /\ Invoked(r[1])
            /\ \A c \in RxSet(r[1]) : chg'[<<r[1], c>>] = 0]_vars
    /\ []<>(\A r \in InputReceivers : chg[r] = 0)

\* C11 as the code has it: an unseen write is read by an invocation of the
\* watcher's callback unless the watcher returns Ok first because one of its
\* channels is closed; and under fair scheduling every unseen write gets read
\* or dropped that way as long as no callback has failed.
C11_WriteObservedUnlessEnded ==
    /\ [][\A r \in InputReceivers : (chg[r] > 0 /\ chg'[r] = 0) =>
            \/ /\ Invoked(r[1])
               /\ \A c \in RxSet(r[1]) : chg'[<<r[1], c>>] = 0
            \/ /\ pc'[r[1]] = "done"
               /\ \E c \in RxSet(r[1]) : Closed(c)]_vars
    /\ []<>(result = "running" => \A r \in InputReceivers : chg[r] = 0)

\* the key watcher has read a salt written after start and derived the key
\* from it
C11_Witness ==
    /\ result = "running" /\ pc["key"] = "waiting"
    /\ val["salt"] = "salt2025" /\ val["password"] = "a"
    /\ \A c \in RxSet("key") : chg[<<"key", c>>] = 0
    /\ val["key"] = Some(<<DefaultAlgorithm, "a", "salt2025">>)

\* C12: when the key callback runs on a salt shorter than the selected
\* algorithm's minimum it leaves the key absent and the salt validation Err;
\* neither that invocation nor the salt write itself touches the hash output
\* or the password validation, or wakes a watcher that writes them.
C12_ShortSaltFrame ==
    [][/\ (/\ Invoked("key")
           /\ val["algorithm"] # "S2kSha256"
           /\ Len(val["salt"]) < MIN_SALT_LEN) =>
            /\ val'["key"] = None
            /\ val'["salt_validation"] = Some("SaltTooShort")
            /\ val'["hash_actual"] = val["hash_actual"]
            /\ val'["password_validation"] = val["password_validation"]
       /\ chg'[<<"key", "salt">>] > chg[<<"key", "salt">>] =>
            /\ val'["hash_actual"] = val["hash_actual"]
            /\ val'["password_validation"] = val["password_validation"]
            /\ \A r \in Receivers :
                 r[1] \in {"hash", "validation", "hash_actual_display",
                           "password_validation_display"} => chg'[r] = chg[r]]_vars

\* the key, shown on the page, has just been withdrawn for a salt that was
\* cut short, the hash of the password staying in place
C12_Witness ==
    /\ val["salt"] = "" /\ val["algorithm"] # "S2kSha256"
    /\ val["key"] = None /\ val["salt_validation"] = Some("SaltTooShort")
    /\ IsSome(dom["key_display"]) /\ dom["salt_validation_display"] = Some("Ok")
    /\ val["password"] = "a"
    /\ IsSome(val["hash_actual"]) /\ Unwrap(val["hash_actual"])[3] = "a"

\* C13: an error of the derivation other than SaltTooShort / SaltTooLong is
\* never written to the salt-validation field as data: whenever the key
\* callback has met one, its watcher has failed and the graph has aborted.
C13_OtherErrorFatal ==
    /\ val["salt_validation"] # Some(OtherError)
    /\ dom["salt_validation_display"] # Some(OtherError)

\* C14: a salt of the wrong length and an expected hash that does not parse
\* end no watcher and not the joined future: with no call failing every
\* watcher keeps running whatever is written, and once the graph is at rest
\* on a valid salt the key is present and its validation Ok, and on a text
\* that parses the parsed hash is present and its validation Ok.
C14_ValidationErrorsRecoverable ==
    /\ result = "running"
    /\ \A w \in Watchers : pc[w] \in {"start", "waiting"} /\ ret[w] # "Err"
    /\ AllIdle =>
        /\ (val["algorithm"] = "S2kSha256" \/ Len(val["salt"]) >= MIN_SALT_LEN) =>
              IsSome(val["key"]) /\ val["salt_validation"] = Some("Ok")
        /\ PasswordHashStringNew(val["hash_expected_input"]).ok =>
              /\ IsSome(val["hash_expected"])
              /\ dom["hash_expected_parse"][2] = Some("Ok")
              /\ IsSome(val["password_validation"])

\* the page still shows the salt and the expected hash as invalid while the
\* key and the parsed hash are back after valid writes
C14_Witness ==
    /\ dom["salt_validation_display"] = Some("SaltTooShort")
    /\ dom["hash_expected_parse"][1] = <<"junk">>
    /\ val["salt"] = "salt2025" /\ val["algorithm"] = DefaultAlgorithm
    /\ val["salt_validation"] = Some("Ok") /\ IsSome(val["key"])
    /\ result = "running"

\* C15: with the graph at rest on an expected-hash text that does not parse,
\* the validation shown on the expected-hash input is the parse error, no
\* parsed hash is held and the password validation is absent, in the channel
\* and on the page, whatever the password is.
C15_UnparseableClearsValidation ==
    (AllIdle /\ ~PasswordHashStringNew(val["hash_expected_input"]).ok) =>
        /\ dom["hash_expected_parse"] =
             <<val["hash_expected_input"], Some("PhcStringField")>>
        /\ val["hash_expected"] = None
        /\ val["password_validation"] = None
        /\ dom["password_validation_display"] = None

\* at rest on a text that does not parse, with a password typed in and a
\* hash of it on the page
C15_Witness ==
    /\ AllIdle
    /\ val["hash_expected_input"] = <<"junk">>
    /\ val["password"] = "a"
    /\ IsSome(dom["hash_actual_display"])
    /\ val["password_validation"] = None

\* C16 as stated: with the graph at rest on an expected-hash text that
\* parses, the outcome of verifying the password against it is held by the
\* password validation and shown as the validation of the expected-hash input.
C16_VerifyOutcomeOnBothFields ==
    (AllIdle /\ PasswordHashStringNew(val["hash_expected_input"]).ok) =>
        LET outcome == IF val["hash_expected_input"][3] = val["password"]
                       THEN "Ok" ELSE "Password"
        IN  /\ val["password_validation"] = Some(outcome)
            /\ dom["hash_expected_parse"][2] = Some(outcome)

\* C16 as the code has it: the outcome of the verification is held by the
\* password validation and shown on the password input; the validation of
\* the expected-hash input is the outcome of the parse, Ok.
C16_VerifyOutcomeOnPasswordField ==
    (AllIdle /\ PasswordHashStringNew(val["hash_expected_input"]).ok) =>
        LET outcome == IF val["hash_expected_input"][3] = val["password"]
                       THEN "Ok" ELSE "Password"
        IN  /\ val["password_validation"] = Some(outcome)
            /\ dom["password_validation_display"] = Some(outcome)
            /\ dom["hash_expected_parse"][2] = Some("Ok")

\* at rest on a hash of another password: the password is shown invalid, the
\* expected hash valid
C16_Witness ==
    /\ AllIdle
    /\ val["hash_expected_input"] = PasswordHashString("a", 1)
    /\ val["password"] = "b"
    /\ dom["password_validation_display"] = Some("Password")
    /\ dom["hash_expected_parse"][2] = Some("Ok")

Written(c) ==
    \/ val'[c] # val[c]
    \/ \E r \in Receivers : r[2] = c /\ chg'[r] > chg[r]

\* C18: each derived field is written by the callback of one watcher only
\* and by no handler, each input field by handlers only, in steps in which
\* no watcher runs, and a step that writes the algorithm writes no other
\* field.
C18_OneKindOfWriter ==
    [][/\ Written("hash_actual") => Invoked("hash")
       /\ Written("hash_expected") => Invoked("hash_expected_parse")
       /\ Written("password_validation") => Invoked("validation")
       /\ Written("salt_validation") => Invoked("key")
       /\ Written("key") => Invoked("key")
       /\ \A c \in {"password", "hash_expected_input", "algorithm", "salt"} :
            Written(c) =>
              /\ \A w \in Watchers : ~Invoked(w)
              /\ pc' = pc /\ dom' = dom /\ cursor' = cursor
              /\ \A x \in Channels \ {c} : ~Written(x)
       /\ Written("algorithm") => \A x \in Channels \ {"algorithm"} : val'[x] = val[x]]_vars

\* an algorithm has been selected and the key, not yet recomputed, is still
\* the one derived with the algorithm selected before
C18_Witness ==
    /\ val["algorithm"] = "S2kSha256"
    /\ chg[<<"key", "algorithm">>] > 0
    /\ val["key"] = Some(<<DefaultAlgorithm, "a", "salt2025">>)

\* n to the power c
RECURSIVE Power(_, _)
Power(n, c) == IF c = 0 THEN 1 ELSE n * Power(n, c - 1)

\* digit k of count radix-n digits, most significant first, of v
DigitOf(v, n, count, k) == (v \div Power(n, count - k)) % n

\* C19: encode(key, chars, count) returns count symbols, symbol k being the
\* one chars has at the k-th radix-n digit, most significant first, of the
\* big-endian value of key modulo n^count (n the number of chars); every
\* turn of its loop keeps that for the bytes read so far, each digit below
\* n; with the 256 byte chars and count >= len(key) the result is key after
\* count - len(key) zero symbols.
C19_EncodeRadixDigits ==
    enc.fn = "encode" =>
        LET n == Len(enc.chars)
            m == Power(n, enc.count)
        IN  /\ Len(enc.remainder) = enc.count
            /\ \A k \in 1..enc.count :
                 /\ enc.remainder[k] < n
                 /\ enc.remainder[k] =
                      DigitOf(ValueMod(enc.key, enc.i, m), n, enc.count, k)
            /\ IsSome(enc.out) =>
                 /\ Len(Unwrap(enc.out)) = enc.count
                 /\ \A k \in 1..enc.count :
                      Unwrap(enc.out)[k] =
                        enc.chars[DigitOf(ValueMod(enc.key, Len(enc.key), m),
                                          n, enc.count, k) + 1]
                 /\ (n = 256 /\ enc.chars[1] = 0 /\ enc.count >= Len(enc.key)) =>
                      Unwrap(enc.out) =
                        [k \in 1..(enc.count - Len(enc.key)) |-> 0] \o enc.key

\* encode(b"key", '0'..='9', 6) has returned "038329"
C19_Witness ==
    /\ enc.fn = "encode"
    /\ enc.key = <<107, 101, 121>> /\ enc.chars = Digits /\ enc.count = 6
    /\ enc.out = Some(<<48, 51, 56, 51, 50, 57>>)

\* C20: the 6-digit variants return exactly 6 chars, each an ASCII digit,
\* and the 4-digit variant exactly 4, whatever bytes the digest is made of.
C20_DigitVariantsShape ==
    (IsSome(enc.out) /\ enc.chars = Digits /\ enc.count \in {4, 6}) =>
        /\ Len(Unwrap(enc.out)) = enc.count
        /\ \A k \in 1..enc.count : Unwrap(enc.out)[k] \in 48..57

\* the 6-digit formatting of a digest whose value modulo 10^6 has fewer than
\* six digits has kept the leading zeros
C20_Witness ==
    /\ enc.fn = "format" /\ enc.key = <<0, 0, 101, 107>>
    /\ enc.out = Some(<<48, 50, 53, 57, 54, 51>>)

\* C21 as stated: for every salt, passphrase and count, s2k feeds exactly
\* count bytes, byte i being byte (i mod len) of salt followed by passphrase,
\* and returns the digest of those bytes.
C21_FeedsExactlyCount ==
    (hasher.fn = "s2k" /\ IsSome(hasher.out)) =>
        LET bytes == hasher.salt \o hasher.passphrase
        IN  /\ Len(hasher.fed) = hasher.count
            /\ \A i \in 0..(hasher.count - 1) :
                 hasher.fed[i + 1] = bytes[(i % Len(bytes)) + 1]
            /\ Unwrap(hasher.out) = <<"digest", hasher.fed>>

\* C21 as the code has it: when salt followed by passphrase is not empty,
\* s2k feeds exactly count bytes, one at a time, byte i being byte (i mod len)
\* of it, also when count is smaller than len; when both are empty it feeds
\* no byte at all, whatever count is; it returns the digest of the bytes fed.
C21_FeedsCountUnlessEmpty ==
    hasher.fn = "s2k" =>
        LET bytes == hasher.salt \o hasher.passphrase
        IN  /\ Len(hasher.fed) <= hasher.count
            /\ Len(bytes) = 0 => hasher.fed = <<>>
            /\ Len(bytes) > 0 =>
                 \A i \in 0..(Len(hasher.fed) - 1) :
                     hasher.fed[i + 1] = bytes[(i % Len(bytes)) + 1]
            /\ (hasher.done /\ Len(bytes) > 0) => Len(hasher.fed) = hasher.count
            /\ IsSome(hasher.out) =>
                 /\ hasher.done
                 /\ Unwrap(hasher.out) = <<"digest", hasher.fed>>

\* a salt of one byte and a passphrase of two have been cycled for five
\* bytes, the second pass being cut short
C21_Witness ==
    /\ hasher.fn = "s2k"
    /\ hasher.salt = <<1>> /\ hasher.passphrase = <<3, 4>> /\ hasher.count = 5
    /\ hasher.out = Some(<<"digest", <<1, 3, 4, 1, 3>>>>)

\* the index of a char in the base64 alphabet
Base64Index(c) == CHOOSE i \in 0..63 : Base64Char(i) = c

\* the bytes a padded base64 text of one or more groups of four chars stands
\* for
RECURSIVE Base64Decoded(_)
Base64Decoded(text) ==
    IF Len(text) < 4 THEN <<>>
    ELSE LET a == Base64Index(text[1])
             b == Base64Index(text[2])
         IN  IF text[3] = 61 THEN << a * 4 + b \div 16 >>
             ELSE IF text[4] = 61
             THEN << a * 4 + b \div 16,
                     (b % 16) * 16 + Base64Index(text[3]) \div 4 >>
             ELSE << a * 4 + b \div 16,
                     (b % 16) * 16 + Base64Index(text[3]) \div 4,
                     (Base64Index(text[3]) % 4) * 64 + Base64Index(text[4]) >>
                  \o Base64Decoded(SubSeq(text, 5, Len(text)))

C23_ReleasedBuffersZeroed ==
    drv.fn = "key" =>
        \A buffer \in drv.released : \A k \in 1..Len(buffer) : buffer[k] = 0

\* C24: the stored item changes only in a step of the store handler, a step
\* in which no watcher runs and no channel is written, and becomes the hash
\* output the channel holds at that moment, a PHC string and no password and
\* no key; password writes, recomputations and loads leave it as it is, and
\* so does a store while the hash output is absent.
C24_StoredOnlyOnSave ==
    [][/\ storage' # storage =>
            /\ IsSome(val["hash_actual"])
            /\ storage' = val["hash_actual"]
            /\ Unwrap(storage') \in Hashes
            /\ \A w \in Watchers : ~Invoked(w)
            /\ \A c \in Channels : ~Written(c)
            /\ pc' = pc /\ dom' = dom /\ thrown' = thrown
       /\ (\E c \in Channels : Written(c)) => storage' = storage
       /\ (\E w \in Watchers : pc'[w] # pc[w]) => storage' = storage
       /\ val["hash_actual"] = None => storage' = storage]_vars

\* the hash of an earlier password is stored while the hash output and the
\* page show the hash of the password typed in since
C24_Witness ==
    /\ IsSome(storage) /\ Unwrap(storage) \in Hashes
    /\ Unwrap(storage)[3] = "a"
    /\ val["password"] = "b"
    /\ IsSome(val["hash_actual"]) /\ Unwrap(val["hash_actual"])[3] = "b"
    /\ dom["hash_actual_display"] = val["hash_actual"]

\* C25: a load that finds no item stored is no error: the step of the
\* handler throws nothing, writes no channel, ends no watcher and leaves the
\* result of the graph as it is.
C25_LoadOfNothingIsNoError ==
    [][(storage = None /\ LoadOnClick([ok |-> TRUE, v |-> storage])) =>
            /\ thrown' = thrown
            /\ val' = val /\ chg' = chg
            /\ pc' = pc /\ ret' = ret /\ result' = result
            /\ storage' = None]_vars

\* the load button has been clicked with nothing stored: the graph is still
\* at rest on its initial inputs, and no handler has failed
C25_Witness ==
    /\ storage = None /\ ~thrown
    /\ burst > 0 /\ AllIdle
    /\ val["hash_expected_input"] = <<>> /\ val["password"] = ""

\* the inputs hold the values start() gave them
InputsInitial ==
    /\ val["password"] = "" /\ val["salt"] = ""
    /\ val["algorithm"] = DefaultAlgorithm
    /\ val["hash_expected_input"] = <<>>

\* C26: a watcher that waits, or has returned, has had its callback return
\* at least once; its first poll runs the callback on what its channels hold
\* then; no input is written before every watcher has done so; and with the
\* graph at rest on the initial inputs the derived fields are the ones
\* computed from them: the hash of the empty password, no parsed hash and no
\* password validation, the salt refused as too short and no key.
C26_CallbackBeforeFirstWait ==
    /\ [](\A w \in Watchers : pc[w] # "start" => ret[w] # "none")
    /\ [][\A w \in Watchers : (pc[w] = "start" /\ pc'[w] # "start") =>
            /\ ret'[w] \in {"Ok", "Err"}
            /\ (w \in {"password_display", "salt_display", "key_display"}
                  /\ ret'[w] = "Ok") => dom'[w] = val[Rx(w)[1]]
            /\ \A c \in RxSet(w) : chg'[<<w, c>>] = 0]_vars
    /\ [][(\E c \in InputChannels : Written(c)) =>
            \A w \in Watchers : pc[w] # "start" /\ ret[w] # "none"]_vars
    /\ []((AllIdle /\ InputsInitial) =>
            /\ val["hash_actual"] \in {Some(PasswordHashString("", n)) : n \in Nonces}
            /\ dom["hash_actual_display"] = val["hash_actual"]
            /\ val["hash_expected"] = None
            /\ dom["hash_expected_parse"] = <<<<>>, Some("PhcStringField")>>
            /\ val["password_validation"] = None
            /\ val["salt_validation"] = Some("SaltTooShort")
            /\ dom["salt_validation_display"] = Some("SaltTooShort")
            /\ val["key"] = None /\ dom["key_display"] = None)

\* the graph has come to rest for the first time, no handler having run
C26_Witness ==
    /\ AllIdle /\ burst = 0 /\ InputsInitial
    /\ \A w \in Watchers : ret[w] = "Ok"
    /\ IsSome(val["hash_actual"])
    /\ dom["salt_validation_display"] = Some("SaltTooShort")

\* C27: whenever the key watcher is not held up inside its callback, the key
\* is present if and only if the salt validation is Ok; the two fields are
\* written in one step of the key callback, a key together with Ok and the
\* absence of a key together with the error.
C27_KeyIffSaltOk ==
    /\ [](pc["key"] # "stuck" =>
            (IsSome(val["key"]) <=> val["salt_validation"] = Some("Ok")))
    /\ [][(Invoked("key") /\ pc'["key"] # "stuck") =>
            /\ val'["salt_validation"] # None
            /\ IsSome(val'["key"]) <=> val'["salt_validation"] = Some("Ok")
            /\ \A x \in {"key_display", "salt_validation_display"} :
                 Listening(x) => chg'[<<x, Rx(x)[1]>>] = chg[<<x, Rx(x)[1]>>] + 1]_vars

\* a key that was present has been withdrawn together with the salt
\* validation turning to an error, the page still showing the key
C27_Witness ==
    /\ pc["key"] = "waiting"
    /\ val["key"] = None /\ val["salt_validation"] = Some("SaltTooShort")
    /\ IsSome(dom["key_display"])
    /\ dom["salt_validation_display"] = Some("Ok")
    /\ val["algorithm"] = "Argon2id512"

\* C28: an invocation of a watcher's callback marks every write to every one
\* of its channels as seen, also when several of them had one, so that a
\* watcher left waiting is not ready again until another write; a write is
\* counted once by each receiver; and a watcher renders only in an
\* invocation.  Each invocation after the first thus uses up a write of its
\* own.
C28_NoDoubleConsumption ==
    [][/\ \A w \in Watchers :
            /\ Invoked(w) =>
                 /\ \A c \in RxSet(w) : chg'[<<w, c>>] = 0
                 /\ pc'[w] = "waiting" => TrySelect(chg', w, 1) # "Ok"
            /\ (pc[w] = "waiting" /\ Invoked(w)) =>
                 \E c \in RxSet(w) : chg[<<w, c>>] > 0
            /\ dom'[w] # dom[w] => Invoked(w)
       /\ \A r \in Receivers : chg'[r] > chg[r] => chg'[r] = chg[r] + 1]_vars

\* the password and the parsed expected hash have both been written since
\* the validation watcher last ran, and it is the next to be polled
C28_Witness ==
    /\ pc["validation"] = "waiting" /\ NextPolled("validation")
    /\ chg[<<"validation", "password">>] > 0
    /\ chg[<<"validation", "hash_expected">>] > 0
    /\ result = "running"

\* the receivers that get notice of a write in this step
Woken == {r \in Receivers : chg'[r] > chg[r]}

\* C29: a write wakes the watchers of its channel and no other, and a
\* derived field is written by the invocation of its own watcher only: an
\* algorithm or salt write wakes the key watcher alone, an expected-hash
\* write the parse watcher alone, whose write of the parsed hash wakes the
\* validation watcher alone, and a password write wakes the display, the
\* hash, the validation and the key watcher; an invocation of the key
\* watcher leaves hash output, parsed hash and password validation as they
\* are, one of the parse or validation watcher leaves hash output, key and
\* salt validation as they are, and one of the hash watcher writes the hash
\* output alone.
C29_ExactDependents ==
    [][/\ Written("algorithm") => Woken = {<<"key", "algorithm">>}
       /\ Written("salt") => Woken = {<<"key", "salt">>, <<"salt_display", "salt">>}
       /\ Written("hash_expected_input") =>
            Woken = {<<"hash_expected_parse", "hash_expected_input">>}
       /\ Written("password") =>
            Woken = {<<w, "password">> :
                       w \in {"password_display", "hash", "validation", "key"}}
       /\ \A c \in {"algorithm", "salt", "hash_expected_input", "password"} :
            Written(c) => \A x \in DerivedChannels : val'[x] = val[x]
       /\ Invoked("key") =>
            /\ \A x \in {"hash_actual", "hash_expected", "password_validation"} :
                 val'[x] = val[x]
            /\ Woken \subseteq {<<"key_display", "key">>,
                                <<"salt_validation_display", "salt_validation">>}
       /\ Invoked("hash_expected_parse") =>
            /\ \A x \in {"hash_actual", "key", "salt_validation", "password_validation"} :
                 val'[x] = val[x]
            /\ Woken \subseteq {<<"validation", "hash_expected">>}
       /\ Invoked("validation") =>
            /\ \A x \in {"hash_actual", "key", "salt_validation", "hash_expected"} :
                 val'[x] = val[x]
            /\ Woken \subseteq {<<"password_validation_display", "password_validation">>}
       /\ Invoked("hash") =>
            /\ \A x \in DerivedChannels \ {"hash_actual"} : val'[x] = val[x]
            /\ Woken \subseteq {<<"hash_actual_display", "hash_actual">>}
       /\ (\E x \in DerivedChannels : val'[x] # val[x]) =>
            \E w \in {"key", "hash_expected_parse", "validation", "hash"} : Invoked(w)]_vars

\* an expected hash has been typed in and parsed with a password, its hash
\* and its key in place: only the validation watcher has something unseen
C29_Witness ==
    /\ val["hash_expected"] = Some(PasswordHashString("a", 1))
    /\ chg[<<"validation", "hash_expected">>] = 1
    /\ chg[<<"validation", "password">>] = 0
    /\ val["password_validation"] = None
    /\ val["password"] = "b" /\ val["salt"] = "salt2025"
    /\ chg[<<"hash", "password">>] = 0 /\ chg[<<"key", "password">>] = 0
    /\ IsSome(val["key"]) /\ IsSome(val["hash_actual"])

\* watcher w returns Ok in this step
Returns(w) == pc[w] # "done" /\ pc'[w] = "done"

\* the channels of w holding a write that w returns without having read: none
\* when the step runs the callback once more before it returns
Lost(w) ==
    IF Invoked(w) THEN {} ELSE {c \in RxSet(w) : chg[<<w, c>>] > 0}

\* what the watcher w has rendered or written is what its callback makes of
\* a password p and a salt s
Reflects(w, p, s) ==
    CASE w = "password_display" -> dom'[w] = p
      [] w = "salt_display"     -> dom'[w] = s
      [] w = "hash"             ->
            IsSome(val'["hash_actual"]) /\ Unwrap(val'["hash_actual"])[3] = p
      [] w = "validation"       ->
            val'["password_validation"] =
                (IF IsSome(val'["hash_expected"])
                 THEN Some(VerifyPassword(p, Unwrap(val'["hash_expected"])))
                 ELSE None)
      [] w = "key"              ->
            LET k == AlgorithmKey(val'["algorithm"], p, s)
            IN  /\ val'["salt_validation"] = Some(IF k.ok THEN "Ok" ELSE k.err)
                /\ val'["key"] = (IF k.ok THEN Some(k.v) ELSE None)
      [] OTHER                  -> TRUE

\* C30 as stated: when a watcher returns Ok, what it has rendered or written
\* is computed from the last value written to each of its channels.
C30_NoWriteLostAtClosure ==
    [][\A w \in Watchers : Returns(w) =>
          Reflects(w, val'["password"], val'["salt"])]_vars

\* C30 as the code has it: a watcher returns Ok on a closed channel of which
\* it has read every write, the last one included, and what it has rendered
\* or written is computed from the last value of every channel of which it
\* has nothing unseen; a write to another channel of watch2 / watch3 that it
\* has not read when it finds the closure is never read.
C30_ClosingChannelNotLost ==
    [][\A w \in Watchers : Returns(w) =>
          /\ \E c \in RxSet(w) \ Lost(w) : Closed(c)
          /\ \E p \in Passwords, s \in Salts :
               /\ "password" \notin Lost(w) => p = val'["password"]
               /\ "salt" \notin Lost(w) => s = val'["salt"]
               /\ Reflects(w, p, s)
          /\ Len(Rx(w)) = 1 => Lost(w) = {}]_vars

\* the key watcher has returned Ok after the password input was released,
\* with the key of the last password and salt written
C30_Witness ==
    /\ pc["key"] = "done" /\ ret["key"] = "Ok"
    /\ ~open["password"] /\ open["salt"]
    /\ val["password"] = "b" /\ val["salt"] = "salt2025"
    /\ val["key"] = Some(<<DefaultAlgorithm, "b", "salt2025">>)
    /\ dom["password_display"] = "b" /\ pc["password_display"] = "done"

\* C31: with S2kSha256 selected the derivation cannot fail: an invocation of
\* the key callback on any password and any salt, the empty one included,
\* and whatever the argon2 calls would answer, writes a key and the salt
\* validation Ok; and with the key watcher having nothing unseen the key is
\* the s2k key of the password and salt held.
C31_S2kNeverFails ==
    /\ [][(Invoked("key") /\ val["algorithm"] = "S2kSha256") =>
            /\ val'["key"] = Some(<<"S2kSha256", val["password"], val["salt"]>>)
            /\ val'["salt_validation"] = Some("Ok")
            /\ pc'["key"] = "waiting" /\ result' = "running"]_vars
    /\ []((pc["key"] = "waiting" /\ val["algorithm"] = "S2kSha256"
            /\ \A c \in RxSet("key") : chg[<<"key", c>>] = 0) =>
              /\ val["key"] = Some(<<"S2kSha256", val["password"], val["salt"]>>)
              /\ val["salt_validation"] = Some("Ok"))

\* the s2k key of a password and the empty salt is in place, the page still
\* showing the salt as too short for the algorithm selected before
C31_Witness ==
    /\ val["algorithm"] = "S2kSha256" /\ val["salt"] = "" /\ val["password"] = "a"
    /\ val["key"] = Some(<<"S2kSha256", "a", "">>)
    /\ val["salt_validation"] = Some("Ok")
    /\ dom["salt_validation_display"] = Some("SaltTooShort")

----------------------------------------------------------------------------
(* InputGroup::set_validation: the classes of an input group (document.rs) *)

\* the groups of the page set_validation is called on with an Option
InputGroups == {"password", "salt"}

\* the values set_validation is called with: None, Some(Ok(_)), Some(Err(e))
Validations == {None, Some("Ok"), Some("Password"), Some("SaltTooShort")}

\* DomTokenList::add_1 / add_2
ClassAdd(list, tokens) == list \cup tokens

\* DomTokenList::remove_1 / remove_2
ClassRemove(list, tokens) == list \ tokens

\* the Some(Ok(_)) arm leaving a former is-invalid in place
SetValidationOpsKeep(value) ==
    IF value = None
    THEN << [on |-> "group", op |-> "remove", tokens |-> {"has-validation"}],
            [on |-> "input", op |-> "remove", tokens |-> {"is-valid", "is-invalid"}] >>
    ELSE IF value = Some("Ok")
    THEN << [on |-> "group", op |-> "add", tokens |-> {"has-validation"}],
            [on |-> "input", op |-> "remove", tokens |-> {}],
            [on |-> "input", op |-> "add", tokens |-> {"is-valid"}] >>
    ELSE << [on |-> "group", op |-> "add", tokens |-> {"has-validation"}],
            [on |-> "input", op |-> "remove", tokens |-> {"is-valid"}],
            [on |-> "input", op |-> "add", tokens |-> {"is-invalid"}] >>

\* the class-list calls of the arm of set_validation taken for a value, in the
\* order they are made; each is followed by `?`
SetValidationOps(value) ==
    IF value = None
    THEN << [on |-> "group", op |-> "remove", tokens |-> {"has-validation"}],
            [on |-> "input", op |-> "remove", tokens |-> {"is-valid", "is-invalid"}] >>
    ELSE IF value = Some("Ok")
    THEN << [on |-> "group", op |-> "add", tokens |-> {"has-validation"}],
            [on |-> "input", op |-> "remove", tokens |-> {"is-invalid"}],
            [on |-> "input", op |-> "add", tokens |-> {"is-valid"}] >>
    ELSE << [on |-> "group", op |-> "add", tokens |-> {"has-validation"}],
            [on |-> "input", op |-> "remove", tokens |-> {"is-valid"}],
            [on |-> "input", op |-> "add", tokens |-> {"is-invalid"}] >>

\* the class list of element `on` after the first n calls of ops
RECURSIVE ClassesAfter(_, _, _, _)
ClassesAfter(list, on, ops, n) ==
    IF n = 0 THEN list
    ELSE LET before == ClassesAfter(list, on, ops, n - 1)
             o == ops[n]
         IN  IF o.on # on THEN before
             ELSE IF o.op = "add" THEN ClassAdd(before, o.tokens)
             ELSE ClassRemove(before, o.tokens)

\* set_validation(value) on group g: the first `made` class-list calls succeed;
\* the call returns Ok when all of them did, having set the validation text in
\* the Some(Err(e)) arm, and returns the Err of the first one that failed
SetValidation(g, value, made) ==
    LET ops == SetValidationOps(value)
        all == made = Len(ops)
        el  == classes[g]
    IN  /\ made \in 0..Len(ops)
        /\ classes' = [classes EXCEPT ![g] =
              [group    |-> ClassesAfter(el.group, "group", ops, made),
               input    |-> ClassesAfter(el.input, "input", ops, made),
               text     |-> IF all /\ value \notin {None, Some("Ok")}
                            THEN Unwrap(value) ELSE el.text,
               last     |-> Some(value),
               returned |-> IF all THEN "Ok" ELSE "Err"]]
        /\ UNCHANGED <<val, open, chg, pc, ret, result, dom, cursor, burst, tasks>>
        /\ UNCHANGED <<enc, storage, thrown, hasher, drv, input, select>>

\* the page as it is loaded: whatever validation classes its markup carries,
\* no set_validation call made yet
InitClasses ==
    /\ Constructed /\ enc = NoCall
    /\ storage = None /\ thrown = FALSE
    /\ hasher = [fn |-> "none"] /\ drv = [fn |-> "none"]
    /\ input = [fn |-> "none"] /\ select = [fn |-> "none"]
    /\ classes \in [InputGroups ->
          [group    : {{"input-group"} \cup c : c \in SUBSET {"has-validation"}},
           input    : {{"form-control"} \cup c : c \in SUBSET {"is-valid", "is-invalid"}},
           text     : {""},
           last     : {None},
           returned : {"none"}]]

NextClasses ==
    \E g \in InputGroups, value \in Validations, made \in 0..3 :
        SetValidation(g, value, made)

SpecClasses == InitClasses /\ [][NextClasses]_vars

\* the input of group g carries both validation classes
BothClasses(g) == {"is-valid", "is-invalid"} \subseteq classes[g].input

\* C32: once a set_validation call on an input group has returned Ok, the
\* input does not carry both is-valid and is-invalid, it carries is-valid
\* exactly when the value passed was Some(Ok) and is-invalid exactly when it
\* was Some(Err), and the group carries has-validation exactly when the value
\* was not None, whatever the classes were before and whatever calls came
\* before; and no call, not even one that returns Err after some of its
\* class-list calls, makes an input carry both classes that did not before.
C32_ValidationClasses ==
    /\ [](\A g \in InputGroups :
            (classes[g].last # None /\ classes[g].returned = "Ok") =>
                LET value == Unwrap(classes[g].last) IN
                /\ ~BothClasses(g)
                /\ ("is-valid" \in classes[g].input) <=> (value = Some("Ok"))
                /\ ("is-invalid" \in classes[g].input)
                      <=> (value \notin {None, Some("Ok")})
                /\ ("has-validation" \in classes[g].group) <=> (value # None))
    /\ [][\A g \in InputGroups : ~BothClasses(g) => ~BothClasses(g)']_vars

\* the salt's input, marked invalid and then valid, carries is-valid alone, and
\* the password's group, loaded with both classes and then given None, carries
\* neither, the text of its last error still in its validation element
C32_Witness ==
    /\ classes["salt"].last = Some(Some("Ok")) /\ classes["salt"].returned = "Ok"
    /\ classes["salt"].text = "SaltTooShort"
    /\ classes["salt"].input = {"form-control", "is-valid"}
    /\ classes["salt"].group = {"input-group", "has-validation"}
    /\ classes["password"].last = Some(None) /\ classes["password"].returned = "Ok"
    /\ classes["password"].text = "Password"
    /\ classes["password"].input = {"form-control"}
    /\ classes["password"].group = {"input-group"}

----------------------------------------------------------------------------
(* The copy button clicked again and again, callbacks failing or not *)

NextIcon ==
    \/ \E w \in ToPoll : Watch(w)
    \/ PollEnd
    \/ \E a \in Algorithms : AlgorithmOnChange(a)
    \/ CopyOnClick
    \/ CopyBorrow
    \/ \E fulfilled \in BOOLEAN : CopyWritten(fulfilled)
    \/ CopySlept

SpecIcon == Init /\ [][NextIcon]_vars

----------------------------------------------------------------------------
(* The key shown or masked while every input is written and the key copied *)

NextVisible ==
    \/ \E w \in ToPoll : WatchOk(w)
    \/ PollEnd
    \/ PasswordOnChange("a")
    \/ HashExpectedOnChange(<<"junk">>)
    \/ \E a \in {DefaultAlgorithm, "S2kSha256"} : AlgorithmOnChange(a)
    \/ SaltOnChange("salt2025")
    \/ ToggleOnClick
    \/ CopyOnClick
    \/ CopyBorrow
    \/ \E fulfilled \in BOOLEAN : CopyWritten(fulfilled)
    \/ CopySlept

SpecVisible == Init /\ [][NextVisible]_vars

\* C34: the visible flag is false at startup; it changes only in a click on
\* the toggle button, and every such click negates it; no write to an input,
\* no recomputation of the key or of any other field and no step of a copy
\* task changes it; and the key's input is switched to plain text only by the
\* display callback reading a true flag.
C34_VisibleOnlyByToggle ==
    /\ ~val["visible"]
    /\ [][val'["visible"] # val["visible"] => ToggleOnClick]_vars
    /\ [][ToggleOnClick => val'["visible"] = ~val["visible"]]_vars
    /\ [][(dom'["visible_display"] = "text" /\ dom["visible_display"] # "text")
            => val["visible"] /\ val'["visible"]]_vars

\* a key recomputed after the password changed while the key was shown: it is
\* rendered, the flag still true from the one toggle, the input still plain
C34_Witness ==
    /\ val["visible"] /\ dom["visible_display"] = "text"
    /\ val["password"] = "a" /\ val["algorithm"] = "S2kSha256"
    /\ val["key"] = Some(<<"S2kSha256", "a", "">>)
    /\ dom["key_display"] = val["key"]
    /\ tasks.sleeping = 1

----------------------------------------------------------------------------
(* The terminal widgets: InputState and SelectState (widgets/) *)

\* const MASK: char = '*'
MASK == "*"

\* the characters typed into an input: an ASCII letter and HIRAGANA LETTER A
InputChars == {"h", "U+3042"}

\* char::encode_utf8: the bytes a String holds for a character
EncodeUtf8(c) ==
    CASE c = "h"      -> <<104>>
      [] c = "*"      -> <<42>>
      [] c = "U+3042" -> <<227, 129, 130>>

\* char::len_utf8
LenUtf8(c) == Len(EncodeUtf8(c))

\* UnicodeWidthChar::width_cjk: the columns a character takes
WidthCjk(c) == IF c = "U+3042" THEN Some(2) ELSE Some(1)

\* String::from of a sequence of characters
RECURSIVE StringOf(_)
StringOf(cs) == IF cs = <<>> THEN <<>> ELSE EncodeUtf8(Head(cs)) \o StringOf(Tail(cs))

\* a byte that continues a multi-byte character
IsContinuation(b) == b \in 128..191

\* str::is_char_boundary
IsCharBoundary(s, i) ==
    \/ i = 0
    \/ i = Len(s)
    \/ i < Len(s) /\ ~IsContinuation(s[i + 1])

\* the character whose encoding starts at byte offset i of s
DecodeAt(s, i) ==
    CHOOSE c \in InputChars :
        /\ i + LenUtf8(c) <= Len(s)
        /\ SubSeq(s, i + 1, i + LenUtf8(c)) = EncodeUtf8(c)

\* the offset at which the character holding the j-th byte of s starts
RECURSIVE CharStart(_, _)
CharStart(s, j) == IF IsContinuation(s[j]) THEN CharStart(s, j - 1) ELSE j - 1

\* the character before the cursor found one byte back, whatever that byte is
NextBackByte(s, index) ==
    IF index > Len(s) \/ ~IsCharBoundary(s, index) \/ index = 0 THEN None
    ELSE Some(<<index - 1, DecodeAt(s, CharStart(s, index))>>)

\* value.get(..index).and_then(|s| s.char_indices().next_back())
NextBack(s, index) ==
    IF index > Len(s) \/ ~IsCharBoundary(s, index) \/ index = 0 THEN None
    ELSE LET i == CharStart(s, index) IN Some(<<i, DecodeAt(s, i)>>)

\* value.get(index..).and_then(|s| s.chars().next())
NextChar(s, index) ==
    IF index > Len(s) \/ ~IsCharBoundary(s, index) \/ index = Len(s) THEN None
    ELSE Some(DecodeAt(s, index))

\* the character put at the end of the string, wherever the cursor is
StringInsertEnd(s, i, c) == s \o EncodeUtf8(c)

\* String::insert, which panics off a character boundary
StringInsert(s, i, c) == SubSeq(s, 1, i) \o EncodeUtf8(c) \o SubSeq(s, i + 1, Len(s))

\* String::remove of the character starting at offset i
StringRemove(s, i) == SubSeq(s, 1, i) \o SubSeq(s, i + LenUtf8(DecodeAt(s, i)) + 1, Len(s))

\* usize::saturating_sub
SaturatingSub(a, b) == IF a >= b THEN a - b ELSE 0

\* the events a terminal delivers: key events of a code, modifiers and kind,
\* and an event that is no key event
Modifiers == {"NONE", "SHIFT", "CONTROL"}
Kinds == {"Press", "Repeat", "Release"}
Resize == [code |-> "Resize", ch |-> "", modifiers |-> "NONE", kind |-> "Press"]
Events ==
    [code : {"Enter", "Left", "Right", "Up", "Down", "Backspace", "Tab"},
     ch : {""}, modifiers : Modifiers, kind : Kinds]
    \cup [code : {"Char"}, ch : InputChars, modifiers : Modifiers, kind : Kinds]
    \cup [code : {"Char"}, ch : {"m", "b", "f", "p", "n"},
          modifiers : {"CONTROL"}, kind : Kinds]
    \cup {Resize}

\* the named key matched whatever modifier is held with it
KeyAnyModifier(e, letter, code) ==
    /\ e.kind \in {"Press", "Repeat"}
    /\ \/ e.code = "Char" /\ e.ch = letter /\ e.modifiers = "CONTROL"
       \/ e.code = code

\* key!(..): Ctrl and a letter, or the named key with no modifier, pressed or
\* repeated
Key(e, letter, code) ==
    /\ e.kind \in {"Press", "Repeat"}
    /\ \/ e.code = "Char" /\ e.ch = letter /\ e.modifiers = "CONTROL"
       \/ e.code = code /\ e.modifiers = "NONE"

\* the arm of InputState::handle for a character typed
Typed(e) ==
    /\ e.code = "Char"
    /\ e.modifiers \in {"NONE", "SHIFT"}
    /\ e.kind \in {"Press", "Repeat"}

\* what the cursor moves by for a character
Shown(st, c) == WidthCjk(IF st.masked THEN MASK ELSE c)

\* InputState::handle: the state after the event and the ControlFlow returned
InputHandle(st, e) ==
    IF Key(e, "m", "Enter") THEN [st EXCEPT !.flow = "Break"]
    ELSE IF Key(e, "b", "Left") THEN
        LET back == NextBack(st.value, st.index) IN
        IF back = None THEN [st EXCEPT !.flow = "Continue"]
        ELSE LET w == Shown(st, Unwrap(back)[2]) IN
             [st EXCEPT !.index = Unwrap(back)[1],
                        !.cursor = IF IsSome(w) THEN SaturatingSub(@, Unwrap(w)) ELSE @,
                        !.flow = "Continue"]
    ELSE IF Key(e, "f", "Right") THEN
        LET next == NextChar(st.value, st.index) IN
        IF next = None THEN [st EXCEPT !.flow = "Continue"]
        ELSE LET w == Shown(st, Unwrap(next)) IN
             [st EXCEPT !.index = @ + LenUtf8(Unwrap(next)),
                        !.cursor = IF IsSome(w) THEN @ + Unwrap(w) ELSE @,
                        !.flow = "Continue"]
    ELSE IF Typed(e) THEN
        IF ~IsCharBoundary(st.value, st.index) \/ st.index > Len(st.value)
        THEN [st EXCEPT !.flow = "panic"]
        ELSE LET w == Shown(st, e.ch) IN
             [st EXCEPT !.value = StringInsert(@, st.index, e.ch),
                        !.index = @ + LenUtf8(e.ch),
                        !.cursor = IF IsSome(w) THEN @ + Unwrap(w) ELSE @,
                        !.flow = "Continue"]
    ELSE IF Key(e, "h", "Backspace") THEN
        LET back == NextBack(st.value, st.index) IN
        IF back = None THEN [st EXCEPT !.flow = "Continue"]
        ELSE IF ~IsCharBoundary(st.value, Unwrap(back)[1])
        THEN [st EXCEPT !.flow = "panic"]
        ELSE LET w == Shown(st, Unwrap(back)[2]) IN
             [st EXCEPT !.value = StringRemove(@, Unwrap(back)[1]),
                        !.index = Unwrap(back)[1],
                        !.cursor = IF IsSome(w) THEN SaturatingSub(@, Unwrap(w)) ELSE @,
                        !.flow = "Continue"]
    ELSE [st EXCEPT !.flow = "Continue"]

\* the variants of the enumeration a SelectState chooses from, in order
VARIANTS == <<"Argon2id256", "Argon2id512", "Argon2id6", "S2kSha256">>

\* ListState::select_previous
SelectPrevious(selected) == Some(IF IsSome(selected) THEN SaturatingSub(Unwrap(selected), 1) ELSE 0)

\* ListState::select_next
SelectNext(selected) == Some(IF IsSome(selected) THEN Unwrap(selected) + 1 ELSE 0)

\* SelectState::handle
SelectHandle(st, e) ==
    IF Key(e, "m", "Enter") THEN [st EXCEPT !.flow = "Break"]
    ELSE IF Key(e, "p", "Up")
    THEN [st EXCEPT !.selected = SelectPrevious(@), !.flow = "Continue"]
    ELSE IF Key(e, "n", "Down")
    THEN [st EXCEPT !.selected = SelectNext(@), !.flow = "Continue"]
    ELSE [st EXCEPT !.flow = "Continue"]

\* SelectState::value taking the selection as it is
SelectValueUnchecked(st) ==
    IF st.selected = None THEN "panic"
    ELSE IF Unwrap(st.selected) < Len(VARIANTS) THEN VARIANTS[Unwrap(st.selected) + 1]
    ELSE "panic"

\* SelectState::value: T::VARIANTS.get(selected.unwrap()).or(T::VARIANTS.last()).unwrap()
SelectValue(st) ==
    IF st.selected = None THEN "panic"
    ELSE IF Unwrap(st.selected) < Len(VARIANTS) THEN VARIANTS[Unwrap(st.selected) + 1]
    ELSE IF Len(VARIANTS) > 0 THEN VARIANTS[Len(VARIANTS)]
    ELSE "panic"

\* the values handed to set_value, as characters
SetValues == {<<>>, <<"h", "U+3042">>}

\* InputState::set_value: the index goes to the end, the cursor stays
InputSetValue(cs) ==
    /\ input.flow # "panic"
    /\ input' = [input EXCEPT !.value = StringOf(cs), !.index = Len(StringOf(cs)),
                              !.flow = "none"]
    /\ UNCHANGED <<val, open, chg, pc, ret, result, dom, cursor, burst, tasks>>
    /\ UNCHANGED <<enc, storage, thrown, hasher, drv, classes, select>>

\* one event handed to InputState::handle
InputHandleEvent(e) ==
    /\ input.flow # "panic"
    /\ input' = InputHandle(input, e)
    /\ Len(input'.value) <= MaxInputBytes
    /\ input'.cursor <= MaxCursor
    /\ UNCHANGED <<val, open, chg, pc, ret, result, dom, cursor, burst, tasks>>
    /\ UNCHANGED <<enc, storage, thrown, hasher, drv, classes, select>>

\* one event handed to SelectState::handle
SelectHandleEvent(e) ==
    /\ select.flow # "panic"
    /\ select' = SelectHandle(select, e)
    /\ IsSome(select'.selected) => Unwrap(select'.selected) <= MaxSelected
    /\ UNCHANGED <<val, open, chg, pc, ret, result, dom, cursor, burst, tasks>>
    /\ UNCHANGED <<enc, storage, thrown, hasher, drv, classes, input>>

\* Select::render: while editing the list is drawn, which brings a selection
\* past the end back to the last item unless the area is empty; otherwise the
\* text of value() is drawn
SelectRender(editing, empty) ==
    /\ select.flow # "panic"
    /\ select' =
          IF editing
          THEN IF ~empty /\ IsSome(select.selected)
                  /\ Unwrap(select.selected) >= Len(VARIANTS)
               THEN [select EXCEPT !.selected = Some(Len(VARIANTS) - 1)]
               ELSE select
          ELSE IF SelectValue(select) = "panic"
               THEN [select EXCEPT !.flow = "panic"]
               ELSE select
    /\ UNCHANGED <<val, open, chg, pc, ret, result, dom, cursor, burst, tasks>>
    /\ UNCHANGED <<enc, storage, thrown, hasher, drv, classes, input>>

\* InputState::default() with or without with_masked(true), SelectState::default()
InitWidgets ==
    /\ Constructed /\ enc = NoCall
    /\ storage = None /\ thrown = FALSE
    /\ hasher = [fn |-> "none"] /\ drv = [fn |-> "none"]
    /\ classes = <<>>
    /\ input \in [value : {<<>>}, index : {0}, cursor : {0}, masked : BOOLEAN,
                  flow : {"none"}]
    /\ select = [selected |-> Some(0), flow |-> "none"]

NextWidgets ==
    \/ \E cs \in SetValues : InputSetValue(cs)
    \/ \E e \in Events : InputHandleEvent(e)
    \/ \E e \in Events : SelectHandleEvent(e)
    \/ \E editing, empty \in BOOLEAN : SelectRender(editing, empty)

SpecWidgets == InitWidgets /\ [][NextWidgets]_vars

\* the characters a well-formed string is made of
RECURSIVE Decoded(_)
Decoded(s) ==
    IF s = <<>> THEN <<>>
    ELSE LET c == DecodeAt(s, 0)
         IN  <<c>> \o Decoded(SubSeq(s, LenUtf8(c) + 1, Len(s)))

\* the byte offsets at which a character of s starts or s ends
CharOffsets(s) ==
    {Len(StringOf(SubSeq(Decoded(s), 1, k))) : k \in 0..Len(Decoded(s))}

\* the events matched by key!(LEFT), key!(RIGHT), key!(BACKSPACE), key!(ENTER)
LEFT == {e \in Events : Key(e, "b", "Left")}
RIGHT == {e \in Events : Key(e, "f", "Right")}
BACKSPACE == {e \in Events : Key(e, "h", "Backspace")}
ENTER == {e \in Events : Key(e, "m", "Enter")}

\* C35: after any sequence of handle events and set_value calls on an
\* InputState, index is at most the length of value in bytes and is an offset
\* at which a character of value starts (or its end), and no handler has
\* panicked; LEFT at index 0, BACKSPACE at index 0 and RIGHT at the end leave
\* value and index as they were.
C35_IndexOnBoundary ==
    /\ [](/\ input.flow # "panic"
          /\ input.index <= Len(input.value)
          /\ input.index \in CharOffsets(input.value))
    /\ [][(select' = select /\ input.index = 0) =>
            \A e \in LEFT \cup BACKSPACE :
                InputHandleEvent(e) => /\ input'.value = input.value
                                       /\ input'.index = input.index
                                       /\ input'.cursor = input.cursor]_vars
    /\ [][(select' = select /\ input.index = Len(input.value)) =>
            \A e \in RIGHT :
                InputHandleEvent(e) => /\ input'.value = input.value
                                       /\ input'.index = input.index
                                       /\ input'.cursor = input.cursor]_vars

\* the cursor moved left from the end over an ASCII letter and then over a
\* three-byte character, to the start of the value
C35_Witness ==
    /\ input.value = <<227, 129, 130, 104>>
    /\ input.index = 0
    /\ input.flow = "Continue"
    /\ ~input.masked /\ input.cursor = 0

\* how many characters of s lie before byte offset index
CharsBefore(s, index) == Cardinality({o \in CharOffsets(s) : o < index})

\* the events that type a character
TYPED == {e \in Events : Typed(e)}

\* C36: in an InputState, masked or not, a typed character (no modifier or
\* SHIFT) is inserted at index, between the characters before and after it,
\* and index moves past it; BACKSPACE with a character before index removes
\* exactly that character and leaves index where it started; and from every
\* state, typing any character and then pressing BACKSPACE gives back the
\* value, the index and the cursor of that state.
C36_TypeThenBackspace ==
    /\ [][select' = select =>
            \A e \in TYPED : InputHandleEvent(e) =>
                LET cs == Decoded(input.value)
                    k  == CharsBefore(input.value, input.index)
                IN  /\ Decoded(input'.value) =
                          SubSeq(cs, 1, k) \o <<e.ch>> \o SubSeq(cs, k + 1, Len(cs))
                    /\ CharsBefore(input'.value, input'.index) = k + 1
                    /\ input'.index = input.index + LenUtf8(e.ch)]_vars
    /\ [][(select' = select /\ input.index > 0) =>
            \A e \in BACKSPACE : InputHandleEvent(e) =>
                LET cs == Decoded(input.value)
                    k  == CharsBefore(input.value, input.index)
                IN  /\ Decoded(input'.value) =
                          SubSeq(cs, 1, k - 1) \o SubSeq(cs, k + 1, Len(cs))
                    /\ CharsBefore(input'.value, input'.index) = k - 1
                    /\ input'.index = input.index - LenUtf8(cs[k])]_vars
    /\ [](\A e \in TYPED, b \in BACKSPACE :
            LET typed == InputHandle(input, e)
                back  == InputHandle(typed, b)
            IN  /\ typed.flow = "Continue" /\ back.flow = "Continue"
                /\ back.value = input.value
                /\ back.index = input.index
                /\ back.cursor = input.cursor
                /\ back.masked = input.masked)

\* a masked input holding a letter and a three-byte character, the cursor
\* between them: typing the wide character there and pressing BACKSPACE
\* brings back the value, the index and the cursor column
C36_Witness ==
    /\ input.masked
    /\ input.value = <<104, 227, 129, 130>> /\ input.index = 1 /\ input.cursor = 1
    /\ LET e == [code |-> "Char", ch |-> "U+3042", modifiers |-> "SHIFT", kind |-> "Press"]
           b == [code |-> "Char", ch |-> "h", modifiers |-> "CONTROL", kind |-> "Repeat"]
           typed == InputHandle(input, e)
       IN  /\ typed.value = <<104, 227, 129, 130, 227, 129, 130>>
           /\ typed.index = 4 /\ typed.cursor = 2
           /\ InputHandle(typed, b) = [input EXCEPT !.flow = "Continue"]

\* the key events of a named key with no modifier, or of Ctrl and a letter,
\* pressed or repeated
Chords(code, letter) ==
    {[code |-> code, ch |-> "", modifiers |-> "NONE", kind |-> k] :
        k \in {"Press", "Repeat"}}
    \cup {[code |-> "Char", ch |-> letter, modifiers |-> "CONTROL", kind |-> k] :
        k \in {"Press", "Repeat"}}

\* the events an InputState acts on, and those a SelectState acts on
EnterKeys == Chords("Enter", "m")
InputKeys ==
    Chords("Enter", "m") \cup Chords("Left", "b") \cup Chords("Right", "f")
    \cup Chords("Backspace", "h")
    \cup [code : {"Char"}, ch : InputChars, modifiers : {"NONE", "SHIFT"},
          kind : {"Press", "Repeat"}]
SelectKeys == Chords("Enter", "m") \cup Chords("Up", "p") \cup Chords("Down", "n")

\* C37: in every state of an InputState and of a SelectState, handle returns
\* Break for an event exactly when the event is ENTER (Enter with no modifier
\* or Ctrl-m, pressed or repeated) and Continue for every other event; ENTER
\* leaves the widget's state unchanged, and so does every event that is none
\* of the keys the widget acts on; a step in which handle comes to return
\* Break changes nothing else of the widget.
C37_BreakOnlyOnEnter ==
    /\ [](\A e \in Events :
            LET after == InputHandle(input, e) IN
            /\ after.flow = "Break" <=> e \in EnterKeys
            /\ after.flow = "Continue" <=> e \notin EnterKeys
            /\ (e \in EnterKeys \/ e \notin InputKeys) =>
                  [after EXCEPT !.flow = input.flow] = input)
    /\ [](\A e \in Events :
            LET after == SelectHandle(select, e) IN
            /\ after.flow = "Break" <=> e \in EnterKeys
            /\ after.flow = "Continue" <=> e \notin EnterKeys
            /\ (e \in EnterKeys \/ e \notin SelectKeys) =>
                  [after EXCEPT !.flow = select.flow] = select)
    /\ [][/\ (input'.flow = "Break" /\ input.flow # "Break") =>
                  [input' EXCEPT !.flow = input.flow] = input
          /\ (select'.flow = "Break" /\ select.flow # "Break") =>
                  [select' EXCEPT !.flow = select.flow] = select]_vars

\* ENTER has ended the editing of an input holding text, the cursor inside
\* it, and of a selection moved off the first variant
C37_Witness ==
    /\ input.flow = "Break" /\ input.value = <<104, 227, 129, 130>>
    /\ input.index = 1
    /\ select.flow = "Break" /\ select.selected = Some(2)

\* the variants of the enumeration, as a set
Variants == {VARIANTS[i] : i \in 1..Len(VARIANTS)}

\* C38: after any sequence of events on a SelectState, rendered or not in
\* between, value() returns a variant of the enumeration and nothing has
\* panicked; the selection starts at the first variant; UP at the first
\* variant stays on the first; and DOWN at or past the last variant yields
\* the last variant.
C38_ValueIsVariant ==
    /\ SelectValue(select) = VARIANTS[1]
    /\ [](select.flow # "panic" /\ SelectValue(select) \in Variants)
    /\ [][(input' = input /\ select.selected = Some(0)) =>
            \A e \in Chords("Up", "p") :
                SelectHandleEvent(e) => SelectValue(select') = VARIANTS[1]]_vars
    /\ [][(input' = input /\ Unwrap(select.selected) >= Len(VARIANTS) - 1) =>
            \A e \in Chords("Down", "n") :
                SelectHandleEvent(e) => SelectValue(select') = VARIANTS[Len(VARIANTS)]]_vars

\* DOWN pressed twice more than there are variants below the first, with no
\* render in between: the selected index is past the end and value() is the
\* last variant
C38_Witness ==
    /\ select.selected = Some(Len(VARIANTS) + 1)
    /\ select.flow = "Continue"
    /\ SelectValue(select) = "S2kSha256"

----------------------------------------------------------------------------
(* The arithmetic of encode *)

\* the locals of the turn of `for b in key` that comes next
NextTurn == CarrySteps(enc.remainder, enc.count, enc.key[enc.i + 1], Len(enc.chars))

\* C39: in encode, for the alphabets of 2 to 256 symbols, every key and every
\* digit count, every stored remainder is below n; in every turn of the
\* outer loop each intermediate (r << 8) + b is at most 65535, far below
\* 2^32, each carry handed to the next digit is at most 255 and each
\* remainder stored is below n; and the symbol lookup nth(r) finds a symbol
\* for every digit.
C39_EncodeInRange ==
    /\ [](enc.fn = "encode" =>
            /\ Len(enc.chars) \in 2..256
            /\ \A k \in 1..enc.count : enc.remainder[k] \in 0..(Len(enc.chars) - 1)
            /\ enc.i < Len(enc.key) =>
                  \A k \in 1..Len(NextTurn) :
                      /\ NextTurn[k].s \in 0..65535
                      /\ NextTurn[k].b \in 0..255
                      /\ NextTurn[k].r \in 0..(Len(enc.chars) - 1)
            /\ IsSome(enc.out) =>
                  \A k \in 1..enc.count :
                      /\ enc.remainder[k] + 1 \in DOMAIN enc.chars
                      /\ Unwrap(enc.out)[k] = enc.chars[enc.remainder[k] + 1])
    /\ [][(enc.fn = "encode" /\ enc'.i = enc.i + 1) =>
            /\ Len(NextTurn) = enc.count
            /\ \A k \in 1..enc.count :
                  enc'.remainder[k] = NextTurn[enc.count + 1 - k].r]_vars

\* the largest case: 256 symbols, two digits both at 255 and a byte 255 to
\* come, so that the next turn computes (255 << 8) + 255 = 65535, hands on
\* 255 and stores 255
C39_Witness ==
    /\ enc.fn = "encode" /\ Len(enc.chars) = 256 /\ enc.count = 2
    /\ enc.key = <<255, 255, 255>> /\ enc.i = 2
    /\ enc.remainder = <<255, 255>>
    /\ NextTurn = <<[s |-> 65535, b |-> 255, r |-> 255],
                    [s |-> 65535, b |-> 255, r |-> 255]>>

====
